---- MODULE Spec2Model ----
(***************************************************************************)
(* Model of the VAR coordinator of frc-video-referee                        *)
(* (src/src/frc_video_referee/controller.py) together with the parts of    *)
(* the recorder client (hyperdeck/client.py) and of the arena client       *)
(* (cheesy_arena/client.py, cheesy_arena/model.py) that its handlers read   *)
(* and call.                                                                *)
(*                                                                          *)
(* Every handler that takes the coordinator lock (asyncio.Lock, acquired    *)
(* with "async with self._lock") is one action: the lock serializes the     *)
(* handlers, so a state of this model is a state in which no handler holds  *)
(* the lock.  The outcome of every recorder call made inside a handler      *)
(* (it returns, or it raises) is an input of the action.  An exception      *)
(* leaves the handler at the call that raised: the assignments made before  *)
(* it stay, the ones after it are not made, and the lock is released.       *)
(*                                                                          *)
(* Time is a discrete clock "now" in seconds.  Optional integers (clip_id,  *)
(* team_idx, arena_foul_id) use None for Python's None.                     *)
(*                                                                          *)
(* The run() tasks of the arena client and of the recorder client, and the  *)
(* event bus (web/__init__.py), are modelled next to the coordinator with   *)
(* one record each (arena, hyperdeck, websocket).  A step of a run() task   *)
(* is one session attempt, one frame received, the loss of the connection   *)
(* or the end of the backoff sleep; the notifiers it emits are kept in the  *)
(* record, and the coordinator handlers subscribed to them are the actions  *)
(* of the coordinator's specifications.                                     *)
(***************************************************************************)
EXTENDS Integers, Sequences, FiniteSets, TLC

\* ------------------------------------------------------------------ bounds
MaxTime == 5
MaxMatches == 3
MaxEvents == 2
MaxPending == 2
MaxLifecycleMatches == 2
MaxAnnotatedMatches == 1
MaxNotifies == 2
MaxTokens == 9
MaxLockMatches == 1

\* ------------------------------------------------------- program constants
\* VARSettings defaults (seconds)
auto_scoring_delay == 3
endgame_scoring_delay == 3
recording_extra_time == 2
var_review_backdate_time == 0

\* Python's None for an optional integer, and "no current match"
None == 0 - 1
NoMatch == "<none>"

\* ControllerState
Idle == "Idle"
Recording == "Recording"
ReviewingCurrentMatch == "ReviewingCurrentMatch"
ReviewingHistoricalMatch == "ReviewingHistoricalMatch"
ControllerState == {Idle, Recording, ReviewingCurrentMatch, ReviewingHistoricalMatch}

\* Topic names published through WebsocketManager.notify
CONTROLLER_STATUS_EVENT == "controller_status"
MATCH_LIST_EVENT == "match_list"
CURRENT_MATCH_DATA_EVENT == "current_match_data"
REALTIME_SCORE_EVENT == "realtime_score"

\* MatchEventType
AUTO_SCORING == "AUTO_SCORING"
ENDGAME_SCORING == "ENDGAME_SCORING"
VAR_REVIEW == "VAR_REVIEW"
MAJOR_FOUL == "MAJOR_FOUL"
MINOR_FOUL == "MINOR_FOUL"

\* Alliance
RED == "RED"
BLUE == "BLUE"
NoAlliance == "NONE"

\* ------------------------------------------------------------ input sets
\* Clip ids the recorder may assign
ClipIds == {42}

\* matchLoad messages the arena may send: Match.short_name, IsReplay,
\* Match.id and the six station team numbers
RedTeams == <<2056, 1114, 254>>
BlueTeams == <<118, 148, 330>>
MatchLoadMessages ==
    { [short_name |-> "Q1", is_replay |-> r, id |-> 1, red |-> RedTeams, blue |-> BlueTeams]
        : r \in BOOLEAN }

\* PLACEHOLDER_MATCH_LOAD_MESSAGE
PLACEHOLDER_MATCH_LOAD_MESSAGE ==
    [short_name |-> "T", is_replay |-> FALSE, id |-> 0,
     red |-> <<0, 0, 0>>, blue |-> <<0, 0, 0>>]

\* Fouls as they arrive on the wire in a realtimeScore message
\* (FoulId, IsMajor, TeamId); FoulId None: an arena without foul ids
WireFouls ==
    { [foul_id |-> 7, is_major |-> FALSE, team_id |-> 2056],
      [foul_id |-> 7, is_major |-> TRUE, team_id |-> 9999],
      [foul_id |-> 8, is_major |-> FALSE, team_id |-> 118],
      [foul_id |-> None, is_major |-> FALSE, team_id |-> 2056] }
RedFoulLists == {<<>>} \cup {<<f>> : f \in WireFouls} \cup {<<f, f>> : f \in WireFouls}
BlueFoulLists == {<<>>} \cup {<<f>> : f \in WireFouls}

\* Fields of the pydantic model Foul: the attributes a parsed foul has
Foul_fields == {"is_major", "team_id", "rule_id"}

\* Fields of MatchEvent (hasattr(event, field) in update_event)
MatchEvent_fields ==
    {"event_id", "event_type", "time", "alliance", "team_idx", "arena_foul_id"}

\* update_event patches an operator may send (one field each)
UpdatePatches ==
    { [field |-> "arena_foul_id", value |-> 7],
      [field |-> "no_such_field", value |-> 0] }

\* Times an operator command may carry
CommandTimes == {4}

\* Values the setting var_review_backdate_time may be configured with
BackdateTimes == {0, 5}

\* Sets of match ids the database folder may hold when the server starts
StoredIdSets == {{}, {"Q1_1"}, {"Q1", "Q1_2"}}

VARIABLES
    state,        \* VARController._state
    current,      \* var_id of VARController._current_match, or NoMatch
    matches,      \* VARController._matches: var_id -> MatchListEntry
    db,           \* DB: the stored matches/<var_id>.json records
    pending,      \* delayed_stop tasks sleeping, oldest first: [deadline, match];
                  \* match is the match that was current when MATCH_ENDED made
                  \* the task (the task itself keeps no reference to it)
    now,          \* wall clock, seconds
    match_data,   \* CheesyArenaClient.match_data
    settings,     \* VARController._settings (the settings the handlers read)
    clips,        \* keys of HyperdeckClient._clips
    timeline,     \* keys of HyperdeckClient._timeline
    arena,        \* CheesyArenaClient: its run() task, session and snapshots
    hyperdeck,    \* HyperdeckClient: its run() task, session and snapshots
    websocket,    \* WebsocketManager: connections and topic subscribers
    disk,         \* the database folder as the file system holds it, and the
                  \* server process that writes and loads it
    lock,         \* VARController._lock: its holder and waiters, and the
                  \* handler each task of the event loop is in
    out           \* what the handler that ran last did: recorder requests,
                  \* topics published, whether it ended with an exception

vars == <<state, current, matches, db, pending, now, match_data, settings, clips, timeline,
          arena, hyperdeck, websocket, disk, lock, out>>


\* ------------------------------------------------------------ small helpers
Max(a, b) == IF a >= b THEN a ELSE b

Put(f, k, v) == [x \in DOMAIN f \cup {k} |-> IF x = k THEN v ELSE f[x]]

\* A recorder request the coordinator makes (HyperdeckClient method and arguments)
Cmd(cmd, name, clip, time) == [cmd |-> cmd, name |-> name, clip |-> clip, time |-> time]

\* What a handler works on while it holds the lock, and what it has done so far
Ctx ==
    [state |-> state, current |-> current, matches |-> matches, db |-> db,
     clips |-> clips, cmds |-> <<>>, pubs |-> <<>>, raised |-> FALSE]

\* WebsocketManager.notify(topic), called by a coordinator handler
notify(c, topic) == [c EXCEPT !.pubs = Append(@, topic)]

\* an exception propagates out of the handler
Raise(c) == [c EXCEPT !.raised = TRUE]

\* ------------------------------------------------------------- persistence
\* DB.save_match: matches/<var_id>.json is rewritten with the whole record
save_match(c, id) == [c EXCEPT !.db = Put(@, c.matches[id].var_data.var_id, c.matches[id].var_data)]

\* --------------------------------------------------------- recorder client
\* HyperdeckClient.has_playable_clip
has_playable_clip(clip_id, cl, tl) == clip_id \in cl /\ clip_id \in tl

\* C26 variant of _refresh_hyperdeck_clip_presence, not the program's: the
\* entries are left as they are
clip_presence_not_refreshed(ms, cl, tl) == ms

\* VARController._refresh_hyperdeck_clip_presence
refresh_hyperdeck_clip_presence(ms, cl, tl) ==
    [id \in DOMAIN ms |->
        [ms[id] EXCEPT !.clip_available =
            (ms[id].var_data.clip_id # None
                /\ has_playable_clip(ms[id].var_data.clip_id, cl, tl))]]

\* VARController._handle_hyperdeck_clip_list_update (takes no lock)
handle_hyperdeck_clip_list_update(c) ==
    notify([c EXCEPT !.matches = refresh_hyperdeck_clip_presence(c.matches, c.clips, timeline)],
           MATCH_LIST_EVENT)

\* Outcomes of HyperdeckClient.stop_recording: the finalized clip's id, the
\* TimeoutError of the finalization poll, or an HTTP error of a request
StopOutcomes ==
    { [kind |-> "ok", clip |-> k] : k \in ClipIds }
        \cup { [kind |-> "timeout", clip |-> None], [kind |-> "http_error", clip |-> None] }

\* HyperdeckClient.stop_recording: on success the clip is entered in _clips
\* and CLIP_LIST_UPDATED is notified before the id is returned
stop_recording(c, res) ==
    LET asked == [c EXCEPT !.cmds = Append(@, Cmd("stop_recording", "", None, 0))]
    IN  IF res.kind = "ok"
        THEN handle_hyperdeck_clip_list_update([asked EXCEPT !.clips = @ \cup {res.clip}])
        ELSE Raise(asked)

\* HyperdeckClient.start_recording
start_recording(c, clip_name, ok) ==
    LET asked == [c EXCEPT !.cmds = Append(@, Cmd("start_recording", clip_name, None, 0))]
    IN  IF ok THEN asked ELSE Raise(asked)

\* HyperdeckClient.show_live_view
show_live_view(c, ok) ==
    LET asked == [c EXCEPT !.cmds = Append(@, Cmd("show_live_view", "", None, 0))]
    IN  IF ok THEN asked ELSE Raise(asked)

\* HyperdeckClient.warp_to_clip: ValueError for a clip not in _clips,
\* otherwise the playback request for the clip and time
warp_to_clip(c, clip_id, time_sec, ok) ==
    IF clip_id \notin c.clips
    THEN Raise(c)
    ELSE LET asked == [c EXCEPT !.cmds = Append(@, Cmd("warp_to_clip", "", clip_id, time_sec))]
         IN  IF ok THEN asked ELSE Raise(asked)

\* ------------------------------------------- coordinator: state helpers
\* VARController._create_id_for_current_match
RECURSIVE next_free_id(_, _, _)
next_free_id(match_base_name, match_seqnum, keys) ==
    LET match_id == IF match_seqnum = 0
                    THEN match_base_name
                    ELSE match_base_name \o "_" \o ToString(match_seqnum)
    IN  IF match_id \in keys
        THEN next_free_id(match_base_name, match_seqnum + 1, keys)
        ELSE match_id

match_base_name(arena_match) ==
    IF arena_match.is_replay
    THEN arena_match.short_name \o "_replay"
    ELSE arena_match.short_name

\* an allocation that tries base and base_1 only
create_id_trying_one_suffix(arena_match, ms) ==
    IF match_base_name(arena_match) \in DOMAIN ms
    THEN match_base_name(arena_match) \o "_1"
    ELSE match_base_name(arena_match)

create_id_for_current_match(arena_match, ms) ==
    next_free_id(match_base_name(arena_match), 0, DOMAIN ms)

\* VARController._get_current_match_time
get_current_match_time(c) ==
    IF c.current = NoMatch
    THEN 0
    ELSE Max(0, now - c.matches[c.current].var_data.recording_start_timestamp)

\* MatchEvent(...); event ids are fresh per match (uuid4 in the source)
MatchEvent(events, event_type, time, alliance, team_idx, arena_foul_id) ==
    [event_id |-> Len(events) + 1, event_type |-> event_type, time |-> time,
     alliance |-> alliance, team_idx |-> team_idx, arena_foul_id |-> arena_foul_id]

\* C27 variant of _add_match_event, not the program's: the event is appended
\* in memory and the record is not written
add_match_event_unsaved(c, event) ==
    IF c.current = NoMatch
    THEN c
    ELSE [c EXCEPT !.matches[c.current].var_data.events = Append(@, event)]

\* VARController._add_match_event
add_match_event(c, event) ==
    IF c.current = NoMatch
    THEN c
    ELSE save_match(
            [c EXCEPT !.matches[c.current].var_data.events = Append(@, event)],
            c.current)

\* VARController._save_and_unload_current_match
save_and_unload_current_match(c, update_hyperdeck, stopRes, liveOk) ==
    IF c.current = NoMatch
    THEN c
    ELSE LET c1 == IF c.state = Recording
                   THEN LET s == IF update_hyperdeck THEN stop_recording(c, stopRes) ELSE c
                        IN  IF s.raised
                            THEN s
                            ELSE notify([s EXCEPT !.state = Idle], CONTROLLER_STATUS_EVENT)
                   ELSE c
         IN  IF c1.raised
             THEN c1
             ELSE LET c2 == [save_match(c1, c1.current) EXCEPT !.current = NoMatch]
                  IN  IF update_hyperdeck THEN show_live_view(c2, liveOk) ELSE c2

\* the time of the first AUTO_SCORING event, 0.0 when there is none
time_to_display(events) ==
    LET autos == {i \in 1..Len(events) : events[i].event_type = AUTO_SCORING}
    IN  IF autos = {}
        THEN 0
        ELSE events[CHOOSE i \in autos : \A j \in autos : i <= j].time

\* VARController._finalize_match_recording (the body under the lock)
finalize_match_recording(c, stopRes, warpOk) ==
    IF c.state # Recording
    THEN c
    ELSE IF c.current = NoMatch
    THEN Raise(c)
    ELSE LET s == stop_recording(c, stopRes)
         IN  IF s.raised
             THEN s
             ELSE LET id == s.current
                      clip_id == stopRes.clip
                      s1 == [s EXCEPT
                                !.matches[id].var_data.clip_id = clip_id,
                                !.matches[id].clip_available =
                                    has_playable_clip(clip_id, s.clips, timeline)]
                      s2 == notify(save_match(s1, id), MATCH_LIST_EVENT)
                      s3 == notify([s2 EXCEPT !.state = ReviewingCurrentMatch],
                                   CONTROLLER_STATUS_EVENT)
                  IN  warp_to_clip(s3, clip_id,
                                   time_to_display(s3.matches[id].var_data.events), warpOk)


\* ------------------------------------------------- foul reconciliation
\* pydantic validation of one wire foul into the model Foul: the declared
\* fields are kept, any other key of the message is dropped
Foul_model_validate(wire) == [f \in (DOMAIN wire) \cap Foul_fields |-> wire[f]]

\* find_team_idx in _check_for_foul_changes (list.index is 0-based)
find_team_idx(team_id, teams) ==
    LET at == {i \in 1..Len(teams) : teams[i] = team_id}
    IN  IF team_id = 0 \/ at = {}
        THEN None
        ELSE (CHOOSE i \in at : \A j \in at : i <= j) - 1

\* current_fouls: arena_foul_id -> position of the event that carries it
\* (a dict comprehension: the last event with an id wins)
current_fouls_of(events) ==
    LET ids == {events[i].arena_foul_id : i \in 1..Len(events)} \ {None}
    IN  [k \in ids |->
            CHOOSE i \in 1..Len(events) :
                /\ events[i].arena_foul_id = k
                /\ \A j \in 1..Len(events) : events[j].arena_foul_id = k => j <= i]

expected_event_type(foul) == IF foul.is_major THEN MAJOR_FOUL ELSE MINOR_FOUL

\* one iteration of the loop of process_foul_list, for a foul whose foul_id
\* attribute could be read; acc = [c, made_change]
process_foul(acc, foul, alliance, current_fouls) ==
    LET c == acc.c
        var_data == c.matches[c.current].var_data
        teams == IF alliance = RED THEN var_data.teams.red ELSE var_data.teams.blue
        team_idx == find_team_idx(foul.team_id, teams)
    IN  IF foul.foul_id = None
        THEN acc
        ELSE IF foul.foul_id \notin DOMAIN current_fouls
        THEN [c |-> add_match_event(c,
                        MatchEvent(var_data.events, expected_event_type(foul),
                                   get_current_match_time(c), alliance, team_idx,
                                   foul.foul_id)),
              made_change |-> TRUE]
        ELSE LET i == current_fouls[foul.foul_id]
                 existing_foul == var_data.events[i]
             IN  [c |-> [c EXCEPT !.matches[c.current].var_data.events[i] =
                            [existing_foul EXCEPT !.event_type = expected_event_type(foul),
                                                  !.team_idx = team_idx]],
                  made_change |-> acc.made_change
                                    \/ existing_foul.event_type # expected_event_type(foul)
                                    \/ existing_foul.team_idx # team_idx]

\* process_foul_list: reading foul.foul_id raises AttributeError when the
\* parsed Foul has no such attribute, which ends the whole handler
RECURSIVE process_foul_list(_, _, _, _)
process_foul_list(acc, foul_list, alliance, current_fouls) ==
    IF foul_list = <<>> \/ acc.c.raised
    THEN acc
    ELSE LET foul == Foul_model_validate(Head(foul_list))
         IN  IF "foul_id" \notin DOMAIN foul
             THEN [acc EXCEPT !.c = Raise(@)]
             ELSE process_foul_list(process_foul(acc, foul, alliance, current_fouls),
                                    Tail(foul_list), alliance, current_fouls)

\* VARController._check_for_foul_changes (the body under the lock)
check_for_foul_changes(c, red_fouls, blue_fouls) ==
    IF c.state # Recording \/ c.current = NoMatch
    THEN c
    ELSE LET current_fouls == current_fouls_of(c.matches[c.current].var_data.events)
             r == process_foul_list([c |-> c, made_change |-> FALSE],
                                    red_fouls, RED, current_fouls)
             b == process_foul_list(r, blue_fouls, BLUE, current_fouls)
         IN  IF b.c.raised
             THEN b.c
             ELSE IF b.made_change
             THEN notify(save_match(b.c, b.c.current), MATCH_LIST_EVENT)
             ELSE b.c

\* VARController._handle_realtime_score_update
handle_realtime_score_update(c, red_fouls, blue_fouls) ==
    LET r == check_for_foul_changes(c, red_fouls, blue_fouls)
    IN  IF r.raised THEN r ELSE notify(r, REALTIME_SCORE_EVENT)


\* ------------------------------------------------ lifecycle handlers
\* VARController._handle_match_start (the body under the lock)
handle_match_start(c, startOk) ==
    LET match_timestamp == now
        u == save_and_unload_current_match(c, FALSE, [kind |-> "ok", clip |-> None], TRUE)
        c1 == [u EXCEPT !.state = Recording]
        match_id == create_id_for_current_match(match_data, c1.matches)
        recording_name == match_id
        c2 == start_recording(c1, recording_name, startOk)
        recording_timestamp == now
        entry == [var_data |->
                     [var_id |-> match_id,
                      arena_id |-> match_data.id,
                      clip_file_name |-> recording_name,
                      clip_id |-> None,
                      match_start_timestamp |-> match_timestamp,
                      recording_start_timestamp |-> recording_timestamp,
                      teams |-> [red |-> match_data.red, blue |-> match_data.blue],
                      events |-> <<>>],
                  clip_available |-> FALSE]
    IN  IF c2.raised
        THEN c2
        ELSE LET c3 == [c2 EXCEPT !.current = match_id,
                                  !.matches = Put(@, match_id, entry)]
             IN  notify(notify(save_match(c3, match_id), CONTROLLER_STATUS_EVENT),
                        MATCH_LIST_EVENT)

\* VARController._handle_auto_period_end
handle_auto_period_end(c) ==
    IF c.state # Recording
    THEN c
    ELSE notify(
            add_match_event(c,
                MatchEvent(IF c.current = NoMatch THEN <<>>
                           ELSE c.matches[c.current].var_data.events,
                           AUTO_SCORING, get_current_match_time(c) + auto_scoring_delay,
                           NoAlliance, None, None)),
            MATCH_LIST_EVENT)

\* VARController._handle_match_end, without the create_task of delayed_stop
handle_match_end(c) ==
    IF c.state # Recording
    THEN c
    ELSE notify(
            add_match_event(c,
                MatchEvent(IF c.current = NoMatch THEN <<>>
                           ELSE c.matches[c.current].var_data.events,
                           ENDGAME_SCORING, get_current_match_time(c) + endgame_scoring_delay,
                           NoAlliance, None, None)),
            MATCH_LIST_EVENT)

\* delayed_stop in _handle_match_end: the task sleeps for this long
delayed_stop_delay == endgame_scoring_delay + recording_extra_time

\* VARController._handle_match_commit
handle_match_commit(c, stopRes, liveOk) ==
    IF c.state = ReviewingHistoricalMatch
    THEN c
    ELSE LET u == save_and_unload_current_match(c, TRUE, stopRes, liveOk)
         IN  IF u.raised
             THEN u
             ELSE notify([u EXCEPT !.state = Idle], CONTROLLER_STATUS_EVENT)

\* ---------------------------------------------------- command handlers
\* a load_match honoured in every controller state
load_match_in_any_state(c, match_id, warpOk) ==
    IF match_id \notin DOMAIN c.matches
    THEN c
    ELSE notify([c EXCEPT !.current = match_id, !.state = ReviewingHistoricalMatch],
                CONTROLLER_STATUS_EVENT)

\* VARController._handle_load_match_command
handle_load_match_command(c, match_id, warpOk) ==
    IF c.state \notin {Idle, ReviewingHistoricalMatch} \/ match_id \notin DOMAIN c.matches
    THEN c
    ELSE LET c1 == [c EXCEPT !.current = match_id, !.state = ReviewingHistoricalMatch]
             clip_id == c1.matches[match_id].var_data.clip_id
             c2 == IF clip_id # None /\ clip_id # 0
                        /\ has_playable_clip(clip_id, c1.clips, timeline)
                   THEN warp_to_clip(c1, clip_id, 0, warpOk)
                   ELSE c1
         IN  IF c2.raised THEN c2 ELSE notify(c2, CONTROLLER_STATUS_EVENT)

\* VARController._handle_warp_to_time_command
handle_warp_to_time_command(c, match_id, time, warpOk) ==
    IF c.state \notin {ReviewingHistoricalMatch, ReviewingCurrentMatch}
    THEN c
    ELSE IF c.current = NoMatch \/ c.current # match_id
    THEN c
    ELSE LET clip_id == c.matches[c.current].var_data.clip_id
         IN  IF clip_id # None /\ clip_id # 0 /\ has_playable_clip(clip_id, c.clips, timeline)
             THEN warp_to_clip(c, clip_id, time, warpOk)
             ELSE c

\* an add_var_review that does not compare the command's match id and
\* backdates in every state
add_var_review_to_current(c, match_id, time) ==
    IF c.current = NoMatch
    THEN c
    ELSE notify(
            add_match_event(c,
                MatchEvent(c.matches[c.current].var_data.events, VAR_REVIEW,
                           Max(0, time - settings.var_review_backdate_time),
                           NoAlliance, None, None)),
            MATCH_LIST_EVENT)

\* VARController._handle_add_var_review_command
handle_add_var_review_command(c, match_id, time) ==
    IF c.current = NoMatch \/ c.current # match_id
    THEN c
    ELSE LET event_time == IF c.state = Recording
                           THEN Max(0, time - settings.var_review_backdate_time)
                           ELSE time
         IN  notify(
                add_match_event(c,
                    MatchEvent(c.matches[c.current].var_data.events, VAR_REVIEW,
                               event_time, NoAlliance, None, None)),
                MATCH_LIST_EVENT)

\* VARController._handle_exit_review_command
handle_exit_review_command(c, liveOk) ==
    IF c.state # ReviewingHistoricalMatch
    THEN c
    ELSE LET u == save_and_unload_current_match(c, TRUE, [kind |-> "ok", clip |-> None], liveOk)
         IN  IF u.raised
             THEN u
             ELSE notify([u EXCEPT !.state = Idle], CONTROLLER_STATUS_EVENT)

\* setattr(event, field, value) for a field the event has
apply_update(event, patch) ==
    IF patch.field \in MatchEvent_fields
    THEN [event EXCEPT ![patch.field] = patch.value]
    ELSE event

\* VARController._handle_update_event_command
handle_update_event_command(c, match_id, event_id, patch) ==
    IF match_id \notin DOMAIN c.matches
    THEN c
    ELSE LET events == c.matches[match_id].var_data.events
             found == {i \in 1..Len(events) : events[i].event_id = event_id}
         IN  IF found = {}
             THEN c
             ELSE LET i == CHOOSE k \in found : \A j \in found : k <= j
                      c1 == [c EXCEPT !.matches[match_id].var_data.events[i] =
                                        apply_update(@, patch)]
                  IN  notify(save_match(c1, match_id), MATCH_LIST_EVENT)


\* ------------------------------------------------------------- arena client

\* cheesy_arena/model.py: MatchState
PRE_MATCH == "PRE_MATCH"
START_MATCH == "START_MATCH"
WARMUP_PERIOD == "WARMUP_PERIOD"
AUTO_PERIOD == "AUTO_PERIOD"
PAUSE_PERIOD == "PAUSE_PERIOD"
TELEOP_PERIOD == "TELEOP_PERIOD"
POST_MATCH == "POST_MATCH"
TIMEOUT_ACTIVE == "TIMEOUT_ACTIVE"
POST_TIMEOUT == "POST_TIMEOUT"
MatchState ==
    {PRE_MATCH, START_MATCH, WARMUP_PERIOD, AUTO_PERIOD, PAUSE_PERIOD,
     TELEOP_PERIOD, POST_MATCH, TIMEOUT_ACTIVE, POST_TIMEOUT}

\* cheesy_arena/client.py: ArenaNotifier
ARENA_READY_TO_START == "ARENA_READY_TO_START"
MATCH_STARTED == "MATCH_STARTED"
AUTO_PERIOD_ENDED == "AUTO_PERIOD_ENDED"
TELEOP_PERIOD_STARTED == "TELEOP_PERIOD_STARTED"
MATCH_ENDED == "MATCH_ENDED"
MATCH_COMMITTED_OR_DISCARDED == "MATCH_COMMITTED_OR_DISCARDED"
CONNECTION_STATE_UPDATED == "CONNECTION_STATE_UPDATED"
HISTORICAL_SCORES_UPDATED == "HISTORICAL_SCORES_UPDATED"
REALTIME_SCORE_UPDATED == "REALTIME_SCORE_UPDATED"
MATCH_TIMING_UPDATED == "MATCH_TIMING_UPDATED"
MATCH_TIME_UPDATED == "MATCH_TIME_UPDATED"
MATCH_DATA_UPDATED == "MATCH_DATA_UPDATED"
LifecycleNotifiers ==
    {ARENA_READY_TO_START, MATCH_STARTED, AUTO_PERIOD_ENDED, TELEOP_PERIOD_STARTED,
     MATCH_ENDED, MATCH_COMMITTED_OR_DISCARDED}

\* How a task step of a client ended: it returned, it raised ExitServer, or
\* it raised any other exception
Returned == "returned"
ExitServer == "ExitServer"
Failed == "Exception"

\* HTTP answers: a status code, or RequestFailed when httpx raises a
\* RequestError instead of answering
RequestFailed == 0
ProbeAnswers == {RequestFailed, 200, 307, 500}
LoginAnswers == {RequestFailed, 200, 303, 500}

\* Session tokens the arena may issue, passwords the settings may hold, and
\* versions of the arena's match results and of its timing and score data
Tokens == {2}
Passwords == {None, 1}
StoredTokens == {None, 1}
ResultVersions == {1, 2}
DataVersions == {1}

\* CheesyArenaClient.__init__: the client before run() is started, with the
\* configured password and the session token loaded from arena_client.json.
\* subscribers is the list that _subscribers holds for every notifier once
\* VARController.__init__ has subscribed its handlers; callbacks are the
\* subscribers awaited during the step, each with how it ended
CheesyArenaClient_init(password, stored_token) ==
    [ pc |-> "run",
      password |-> password,
      session_token |-> stored_token,
      stored_token |-> stored_token,
      cookie |-> None,
      connected |-> FALSE,
      match_results |-> 0,
      realtime_score |-> 0,
      match_timing |-> 0,
      match_state |-> PRE_MATCH,
      can_start_match |-> FALSE,
      arena_data |-> 0,
      requests |-> <<>>,
      emitted |-> <<>>,
      frame |-> "none",
      raised |-> Returned,
      subscribers |-> <<"VARController">>,
      callbacks |-> <<>> ]

\* The client and the match_data snapshot, as one handler reads and writes them
ArenaCtx ==
    [ pc |-> arena.pc, password |-> arena.password,
      session_token |-> arena.session_token, stored_token |-> arena.stored_token,
      cookie |-> arena.cookie, connected |-> arena.connected,
      match_results |-> arena.match_results, realtime_score |-> arena.realtime_score,
      match_timing |-> arena.match_timing, match_state |-> arena.match_state,
      can_start_match |-> arena.can_start_match, arena_data |-> arena.arena_data,
      requests |-> arena.requests, emitted |-> arena.emitted,
      frame |-> arena.frame, raised |-> arena.raised,
      subscribers |-> arena.subscribers, callbacks |-> arena.callbacks,
      match_data |-> match_data ]

\* calls made, notifiers emitted and what became of the frame received are
\* kept for the step that made them
ArenaStep(a) ==
    [a EXCEPT !.requests = <<>>, !.emitted = <<>>, !.frame = "none", !.raised = Returned,
              !.callbacks = <<>>]

\* a request the client makes, with the session token it carries
ArenaRequest(a, op, token) ==
    [a EXCEPT !.requests = Append(@, [op |-> op, token |-> token])]

\* CheesyArenaClient._notify: the subscribers run in turn and their exceptions
\* are caught.  The coordinator's HISTORICAL_SCORES_UPDATED subscriber merges
\* match_results into the match list (_refresh_arena_match_data); arena_data
\* is the version the match list holds when the subscribers of the notifier run
arena_notify(a, notifier) ==
    LET b == IF notifier = HISTORICAL_SCORES_UPDATED
             THEN [a EXCEPT !.arena_data = a.match_results]
             ELSE a
    IN  [b EXCEPT !.emitted = Append(@, [notifier |-> notifier,
                                         arena_data |-> b.arena_data])]

\* CheesyArenaClient._refresh_match_results: fetch_ok is whether all four
\* GET /api/matches/<type> requests answer with valid lists
refresh_match_results(a, fetch_ok, results) ==
    LET b == ArenaRequest(a, "GET /api/matches", a.cookie)
    IN  IF ~fetch_ok
        THEN [b EXCEPT !.raised = Failed]
        ELSE arena_notify([b EXCEPT !.match_results = results],
                          HISTORICAL_SCORES_UPDATED)

\* CheesyArenaClient._handle_match_load
arena_handle_match_load(a, message) ==
    arena_notify([a EXCEPT !.match_data = message], MATCH_DATA_UPDATED)

\* CheesyArenaClient._handle_match_timing
handle_match_timing(a, message) ==
    arena_notify([a EXCEPT !.match_timing = message], MATCH_TIMING_UPDATED)

\* a matchTime handler that announces a commit on every change into PRE_MATCH
\* and before it refreshes the results
match_time_commit_before_refresh(a, message, fetch_ok, results) ==
    LET prev_match_state == a.match_state
        b == arena_notify([a EXCEPT !.match_state = message], MATCH_TIME_UPDATED)
    IN  IF prev_match_state = message
        THEN b
        ELSE CASE message = AUTO_PERIOD -> arena_notify(b, MATCH_STARTED)
               [] message = PAUSE_PERIOD -> arena_notify(b, AUTO_PERIOD_ENDED)
               [] message = TELEOP_PERIOD -> arena_notify(b, TELEOP_PERIOD_STARTED)
               [] message = POST_MATCH -> arena_notify(b, MATCH_ENDED)
               [] message = PRE_MATCH ->
                    refresh_match_results(
                        arena_notify(b, MATCH_COMMITTED_OR_DISCARDED), fetch_ok, results)
               [] OTHER -> b

\* CheesyArenaClient._handle_match_time
handle_match_time(a, message, fetch_ok, results) ==
    LET prev_match_state == a.match_state
        b == arena_notify([a EXCEPT !.match_state = message], MATCH_TIME_UPDATED)
    IN  IF prev_match_state = message
        THEN b
        ELSE CASE message = AUTO_PERIOD -> arena_notify(b, MATCH_STARTED)
               [] message = PAUSE_PERIOD -> arena_notify(b, AUTO_PERIOD_ENDED)
               [] message = TELEOP_PERIOD -> arena_notify(b, TELEOP_PERIOD_STARTED)
               [] message = POST_MATCH -> arena_notify(b, MATCH_ENDED)
               [] message = PRE_MATCH /\ prev_match_state = POST_MATCH ->
                    LET c == refresh_match_results(b, fetch_ok, results)
                    IN  IF c.raised # Returned
                        THEN c
                        ELSE arena_notify(c, MATCH_COMMITTED_OR_DISCARDED)
               [] OTHER -> b

\* CheesyArenaClient._handle_realtime_score
arena_handle_realtime_score(a, message) ==
    arena_notify([a EXCEPT !.realtime_score = message], REALTIME_SCORE_UPDATED)

\* CheesyArenaClient._handle_arena_status
handle_arena_status(a, message) ==
    LET b == [a EXCEPT !.can_start_match = message]
    IN  IF b.can_start_match /\ ~a.can_start_match
        THEN arena_notify(b, ARENA_READY_TO_START)
        ELSE b

\* CheesyArenaClient._arena_message_handlers: the message types the client
\* knows; TRUE for the ones that have a handler
arena_message_handlers ==
    [matchLoad |-> TRUE, matchTiming |-> TRUE, matchTime |-> TRUE,
     realtimeScore |-> TRUE, arenaStatus |-> TRUE,
     scoringStatus |-> FALSE, ping |-> FALSE]

\* An inbound frame: well_formed is whether WebsocketMessage accepts it, valid
\* whether the data_type of its type accepts its data; the other fields are
\* the validated data
ArenaFrame(well_formed, type, valid) ==
    [well_formed |-> well_formed, type |-> type, valid |-> valid,
     match_state |-> PRE_MATCH, can_start_match |-> FALSE, version |-> 0,
     match_load |-> PLACEHOLDER_MATCH_LOAD_MESSAGE]

ArenaMessages ==
    {ArenaFrame(FALSE, "", FALSE), ArenaFrame(TRUE, "bogus", TRUE),
     ArenaFrame(TRUE, "ping", TRUE), ArenaFrame(TRUE, "scoringStatus", TRUE)}
    \cup {ArenaFrame(TRUE, t, FALSE) :
            t \in {"matchLoad", "matchTiming", "matchTime", "realtimeScore", "arenaStatus"}}
    \cup {[ArenaFrame(TRUE, "matchTime", TRUE) EXCEPT !.match_state = s] : s \in MatchState}
    \cup {[ArenaFrame(TRUE, "arenaStatus", TRUE) EXCEPT !.can_start_match = b] : b \in BOOLEAN}
    \cup {[ArenaFrame(TRUE, t, TRUE) EXCEPT !.version = v] :
            t \in {"matchTiming", "realtimeScore"}, v \in DataVersions}
    \cup {[ArenaFrame(TRUE, "matchLoad", TRUE) EXCEPT !.match_load = m] :
            m \in MatchLoadMessages}

\* whether the frame reaches a handler of the client
Dispatched(message) ==
    /\ message.well_formed
    /\ message.type \in DOMAIN arena_message_handlers
    /\ arena_message_handlers[message.type]
    /\ message.valid

\* a dispatcher that does not catch the validation error of a message's data
cheesy_message_validation_raises(a, message, fetch_ok, results) ==
    LET skipped == [a EXCEPT !.frame = "skipped"]
        b == [a EXCEPT !.frame = "dispatched"]
    IN  IF ~message.well_formed THEN skipped
        ELSE IF message.type \notin DOMAIN arena_message_handlers THEN skipped
        ELSE IF ~arena_message_handlers[message.type] THEN skipped
        ELSE IF ~message.valid THEN [skipped EXCEPT !.raised = Failed]
        ELSE CASE message.type = "matchLoad" ->
                    arena_handle_match_load(b, message.match_load)
               [] message.type = "matchTiming" -> handle_match_timing(b, message.version)
               [] message.type = "matchTime" ->
                    handle_match_time(b, message.match_state, fetch_ok, results)
               [] message.type = "realtimeScore" ->
                    arena_handle_realtime_score(b, message.version)
               [] message.type = "arenaStatus" ->
                    handle_arena_status(b, message.can_start_match)

\* CheesyArenaClient._handle_cheesy_message.  No type with a handler has the
\* data type NoneType, so the branch for it (client.py:323-329) is never taken
handle_cheesy_message(a, message, fetch_ok, results) ==
    LET skipped == [a EXCEPT !.frame = "skipped"]
        b == [a EXCEPT !.frame = "dispatched"]
    IN  IF ~message.well_formed THEN skipped
        ELSE IF message.type \notin DOMAIN arena_message_handlers THEN skipped
        ELSE IF ~arena_message_handlers[message.type] THEN skipped
        ELSE IF ~message.valid THEN skipped
        ELSE CASE message.type = "matchLoad" ->
                    arena_handle_match_load(b, message.match_load)
               [] message.type = "matchTiming" -> handle_match_timing(b, message.version)
               [] message.type = "matchTime" ->
                    handle_match_time(b, message.match_state, fetch_ok, results)
               [] message.type = "realtimeScore" ->
                    arena_handle_realtime_score(b, message.version)
               [] message.type = "arenaStatus" ->
                    handle_arena_status(b, message.can_start_match)

\* CheesyArenaClient._check_auth_required
check_auth_required(a, probe) ==
    LET b == ArenaRequest(a, "GET /panels/referee", a.cookie)
    IN  IF probe \in {307, 200} THEN b ELSE [b EXCEPT !.raised = Failed]

\* CheesyArenaClient._acquire_session: save_ok is whether writing
\* arena_client.json succeeds
acquire_session(a, login, token, save_ok) ==
    LET b == ArenaRequest(a, "POST /login", a.cookie)
    IN  IF login = 303
        THEN LET c == ArenaRequest([b EXCEPT !.session_token = token, !.cookie = token],
                                   "save_arena_client_state", token)
             IN  IF save_ok
                 THEN [c EXCEPT !.stored_token = token]
                 ELSE [c EXCEPT !.raised = Failed]
        ELSE IF login = 200
        THEN [b EXCEPT !.raised = ExitServer]
        ELSE [b EXCEPT !.raised = Failed]

\* the "finally" of the session (client.py:241-244)
arena_session_closed(a) ==
    arena_notify([a EXCEPT !.connected = FALSE], CONNECTION_STATE_UPDATED)

\* a session that asks for no login when the arena demands one
run_internal_without_login(a, probe, login, token, save_ok, connect_ok, fetch_ok, results) ==
    LET b == check_auth_required(a, probe)
        d == ArenaRequest(b, "websockets.connect", b.session_token)
    IN  IF b.raised # Returned THEN b
        ELSE IF ~connect_ok THEN [d EXCEPT !.raised = Failed]
        ELSE LET e == refresh_match_results(
                        arena_notify([d EXCEPT !.connected = TRUE],
                                     CONNECTION_STATE_UPDATED),
                        fetch_ok, results)
             IN  IF e.raised # Returned THEN e ELSE [e EXCEPT !.pc = "session"]

\* CheesyArenaClient._run_internal up to its receive loop (client.py:197-238).
\* A failure of the first refresh (line 235) is raised before the "try" of the
\* receive loop, so its "finally" does not run
run_internal(a, probe, login, token, save_ok, connect_ok, fetch_ok, results) ==
    LET b == check_auth_required(a, probe)
        c == IF b.raised # Returned \/ probe # 307
             THEN b
             ELSE IF b.password = None
             THEN [b EXCEPT !.raised = ExitServer]
             ELSE acquire_session(b, login, token, save_ok)
        d == ArenaRequest(c, "websockets.connect", c.session_token)
    IN  IF c.raised # Returned THEN c
        ELSE IF ~connect_ok THEN [d EXCEPT !.raised = Failed]
        ELSE LET e == refresh_match_results(
                        arena_notify([d EXCEPT !.connected = TRUE],
                                     CONNECTION_STATE_UPDATED),
                        fetch_ok, results)
             IN  IF e.raised # Returned THEN e ELSE [e EXCEPT !.pc = "session"]

\* a run() loop that gives up after a failed session
run_returns_on_failure(a) ==
    IF a.raised = Returned THEN a ELSE [a EXCEPT !.pc = "exited"]

\* CheesyArenaClient.run, the handling of what a session raised
\* (client.py:185-195): ExitServer leaves the loop, anything else is logged
\* and the task sleeps 3 seconds
arena_run_except(a) ==
    IF a.raised = Returned THEN a
    ELSE IF a.raised = ExitServer THEN [a EXCEPT !.pc = "exited"]
    ELSE [a EXCEPT !.pc = "backoff"]

\* ---------------------------------------------------------- recorder session

\* hyperdeck/client.py: HyperdeckNotifier (CONNECTION_STATE_UPDATED has the
\* name of the arena client's notifier)
TRANSPORT_MODE_UPDATED == "TRANSPORT_MODE_UPDATED"
PLAYBACK_STATE_UPDATED == "PLAYBACK_STATE_UPDATED"
CLIP_LIST_UPDATED == "CLIP_LIST_UPDATED"

\* hyperdeck/model.py: TransportMode, and the PlaybackType values followed
TransportMode == {"InputPreview", "InputRecord", "Output"}
PlaybackTypes == {"Jog", "Play"}

\* Sets of clip ids a clip list or a timeline may hold
ClipKeySets == SUBSET ClipIds

\* A call of stop_recording: where it is ("polling" between two turns of its
\* loop, or how it ended), the settings it reads, the time since start_time,
\* the polls made, the answer to the last poll and the clip id returned
NoPoll == [kind |-> "none", clip |-> None]
NoStop ==
    [ pc |-> "idle", clip_finalize_poll_interval |-> 0, clip_finalize_timeout |-> 0,
      elapsed |-> 0, polls |-> 0, answer |-> NoPoll, clip_id |-> None ]

\* A call of warp_to_clip: how it ended, the position it asked for and the
\* playback requests it sent
NoWarp == [pc |-> "idle", position |-> None, puts |-> 0]

\* HyperdeckClient.__init__
HyperdeckClient_init ==
    [ pc |-> "start",
      connected |-> FALSE,
      transport_mode |-> "InputPreview",
      playback_state |-> "Jog",
      requests |-> <<>>,
      emitted |-> <<>>,
      raised |-> Returned,
      stop |-> NoStop,
      warp |-> NoWarp,
      subscribers |-> <<"VARController">>,
      callbacks |-> <<>> ]

\* The client with its clip list and timeline, as one step reads and writes them
HyperdeckCtx ==
    [ pc |-> hyperdeck.pc, connected |-> hyperdeck.connected,
      transport_mode |-> hyperdeck.transport_mode,
      playback_state |-> hyperdeck.playback_state,
      requests |-> <<>>, emitted |-> <<>>, raised |-> Returned,
      stop |-> hyperdeck.stop, warp |-> hyperdeck.warp,
      subscribers |-> hyperdeck.subscribers, callbacks |-> <<>>,
      clips |-> clips, timeline |-> timeline ]

\* HyperdeckClient._notify: the subscribers' exceptions are caught
hyperdeck_notify(h, notifier) == [h EXCEPT !.emitted = Append(@, notifier)]

\* A property with its value as the recorder sends it: valid is whether the
\* model of the property accepts the value; the other fields are the
\* validated value
PropertyValue(property, valid) ==
    [property |-> property, valid |-> valid, mode |-> "InputPreview",
     playback |-> "Jog", keys |-> {}]

PropertyValues ==
    {PropertyValue(p, FALSE) : p \in {"/transports/0/playback", "/transports/0", "/timelines/0"}}
    \cup {PropertyValue("/media/active", TRUE)}
    \cup {[PropertyValue("/transports/0/playback", TRUE) EXCEPT !.playback = t] :
            t \in PlaybackTypes}
    \cup {[PropertyValue("/transports/0", TRUE) EXCEPT !.mode = m] : m \in TransportMode}
    \cup {[PropertyValue("/timelines/0", TRUE) EXCEPT !.keys = k] : k \in ClipKeySets}

\* HyperdeckClient._handle_property_change: model_validate raises the
\* ValidationError of a rejected value; a property without a case is passed over
handle_property_change(h, p) ==
    CASE p.property = "/transports/0/playback" ->
            IF ~p.valid THEN [h EXCEPT !.raised = Failed]
            ELSE hyperdeck_notify([h EXCEPT !.playback_state = p.playback],
                                  PLAYBACK_STATE_UPDATED)
      [] p.property = "/transports/0" ->
            IF ~p.valid THEN [h EXCEPT !.raised = Failed]
            ELSE hyperdeck_notify([h EXCEPT !.transport_mode = p.mode],
                                  TRANSPORT_MODE_UPDATED)
      [] p.property = "/timelines/0" ->
            IF ~p.valid THEN [h EXCEPT !.raised = Failed]
            ELSE IF p.keys # h.timeline
            THEN hyperdeck_notify([h EXCEPT !.timeline = p.keys], CLIP_LIST_UPDATED)
            ELSE [h EXCEPT !.timeline = p.keys]
      [] OTHER -> h

\* the loop over the values of a subscribe response (client.py:149-150)
RECURSIVE handle_values(_, _)
handle_values(h, values) ==
    IF values = <<>> \/ h.raised # Returned
    THEN h
    ELSE handle_values(handle_property_change(h, Head(values)), Tail(values))

\* Frames the recorder may send: one that InboundWebsocketMessage rejects
\* (not JSON, unknown type or action, missing field), the responses and the
\* events
HyperdeckFrame(kind, values) == [kind |-> kind, values |-> values]

HyperdeckFrames ==
    {HyperdeckFrame(k, <<>>) :
        k \in {"rejected", "subscribe_failed", "unsubscribe_response", "websocketOpened",
               "subscribe_response"}}
    \cup {HyperdeckFrame("subscribe_response", <<p>>) : p \in PropertyValues}
    \cup {HyperdeckFrame("subscribe_response", <<p, q>>) :
            p \in PropertyValues, q \in PropertyValues}
    \cup {HyperdeckFrame("propertyValueChanged", <<p>>) : p \in PropertyValues}

\* HyperdeckClient._run_internal, one turn of the receive loop after recv
\* (client.py:142-165): validate_json raises the ValidationError of a frame it
\* rejects, and nothing in the loop catches it
hyperdeck_handle_message(h, frame) ==
    CASE frame.kind = "rejected" -> [h EXCEPT !.raised = Failed]
      [] frame.kind = "subscribe_response" -> handle_values(h, frame.values)
      [] frame.kind = "subscribe_failed" -> [h EXCEPT !.raised = Failed]
      [] frame.kind = "propertyValueChanged" ->
            handle_property_change(h, frame.values[1])
      [] OTHER -> h

\* HyperdeckClient._get_full_clip_list
get_full_clip_list(h, clips_ok, keys) ==
    LET b == [h EXCEPT !.requests = Append(@, "GET /clips")]
    IN  IF ~clips_ok THEN [b EXCEPT !.raised = Failed]
        ELSE IF keys # b.clips
        THEN hyperdeck_notify([b EXCEPT !.clips = keys], CLIP_LIST_UPDATED)
        ELSE b

\* the "finally" of the session (client.py:166-169)
hyperdeck_session_closed(h) ==
    hyperdeck_notify([h EXCEPT !.connected = FALSE], CONNECTION_STATE_UPDATED)

\* HyperdeckClient._run_internal up to its receive loop (client.py:119-140)
hyperdeck_run_internal(h, connect_ok, clips_ok, keys, send_ok) ==
    LET b == [h EXCEPT !.requests = Append(@, "websockets.connect")]
        c == get_full_clip_list(
                hyperdeck_notify([b EXCEPT !.connected = TRUE], CONNECTION_STATE_UPDATED),
                clips_ok, keys)
        d == [c EXCEPT !.requests = Append(@, "subscribe")]
    IN  IF ~connect_ok THEN [b EXCEPT !.raised = Failed]
        ELSE IF c.raised # Returned THEN hyperdeck_session_closed(c)
        ELSE IF ~send_ok THEN hyperdeck_session_closed([d EXCEPT !.raised = Failed])
        ELSE [d EXCEPT !.pc = "session"]

\* HyperdeckClient.run, the handling of what a session raised
\* (client.py:106-117)
hyperdeck_run_except(h) ==
    IF h.raised = Returned THEN h
    ELSE IF h.raised = ExitServer THEN [h EXCEPT !.pc = "exited"]
    ELSE [h EXCEPT !.pc = "backoff"]

\* ------------------------------------------- recorder client: stop_recording

\* HyperdeckClientSettings.clip_finalize_poll_interval and
\* clip_finalize_timeout as configured, and the time a request takes, in
\* ticks of the poll clock
PollIntervals == {1, 2}
FinalizeTimeouts == {0, 2, 3}
RequestTimes == {0, 1}

\* What GET /transports/0/clip answers: an error status, {"clip": null}, a
\* clip record that lacks clipUniqueId or frameCount, or a full record
PollAnswers ==
    { [kind |-> k, clip |-> None] : k \in {"error", "null", "incomplete"} }
        \cup { [kind |-> "complete", clip |-> k] : k \in ClipIds }

\* a variant of clip_finalized that takes any clip record for a finalized one
clip_reported(answer) == answer.kind \in {"incomplete", "complete"}

\* ClipResponse.model_validate_json followed by the test of clip_data.clip
\* (client.py:235-237): the validation of a record without clipUniqueId or
\* frameCount raises, which the except clause takes for "not yet finalized"
clip_finalized(answer) == answer.kind = "complete"

\* stop_recording up to the loop (client.py:216-222): the timeout and the
\* interval are the settings of the client; what the call raises goes to its
\* caller and is kept in stop.pc
stop_recording_begin(h, post_ok, interval, timeout) ==
    LET asked == [h EXCEPT !.requests = Append(@, "POST /transports/0/stop")]
        call == [NoStop EXCEPT !.clip_finalize_poll_interval = interval,
                               !.clip_finalize_timeout = timeout]
    IN  IF post_ok
        THEN [asked EXCEPT !.stop = [call EXCEPT !.pc = "polling"]]
        ELSE [asked EXCEPT !.stop = [call EXCEPT !.pc = "HTTPStatusError"]]

\* one turn of the loop of stop_recording (client.py:223-254): took is the
\* time the request takes, and the sleep lasts the interval
stop_recording_poll(h, answer, took) ==
    LET call == h.stop
        asked == [h EXCEPT !.requests = Append(@, "GET /transports/0/clip")]
        polled == [call EXCEPT !.polls = @ + 1, !.answer = answer,
                               !.elapsed = @ + took]
    IN  IF call.elapsed >= call.clip_finalize_timeout
        THEN [h EXCEPT !.stop.pc = "TimeoutError"]
        ELSE IF answer.kind = "error"
        THEN [asked EXCEPT !.stop = [polled EXCEPT !.pc = "HTTPStatusError"]]
        ELSE IF clip_finalized(answer)
        THEN hyperdeck_notify(
                [asked EXCEPT !.clips = @ \cup {answer.clip},
                              !.stop = [polled EXCEPT !.pc = "returned",
                                                      !.clip_id = answer.clip]],
                CLIP_LIST_UPDATED)
        ELSE [asked EXCEPT !.stop =
                [polled EXCEPT !.elapsed = @ + call.clip_finalize_poll_interval]]

\* ---------------------------------------------- recorder client: warp_to_clip

\* time_sec in halves of a second, Clip.videoFormat.frameRate, and the
\* TimelineClip of a clip: clipIn, timelineIn and frameCount
TimeDenominator == 2
TimeNumerators == (0 - 3) .. 9
FrameRates == {1, 3}
TimelineClips == [clipIn : {0, 2}, timelineIn : {0, 5}, frameCount : {1, 3}]

\* int() of the product time_sec * frameRate: Python's int rounds a float
\* towards zero
int_of_product(numerator, frameRate) ==
    LET product == numerator * frameRate
    IN  IF product >= 0
        THEN product \div TimeDenominator
        ELSE 0 - ((0 - product) \div TimeDenominator)

Min(a, b) == IF a <= b THEN a ELSE b

\* HyperdeckClient._get_timeline_position: a clip that is not on the timeline
\* gets position 0 (the KeyError is caught and an error is logged)
get_timeline_position(on_timeline, timeline_clip, time_frames) ==
    IF ~on_timeline
    THEN 0
    ELSE LET after_start == Max(timeline_clip.clipIn, time_frames)
             frame_in_clip ==
                Min(after_start, timeline_clip.clipIn + timeline_clip.frameCount - 1)
         IN  timeline_clip.timelineIn + frame_in_clip - timeline_clip.clipIn

\* HyperdeckClient.warp_to_clip: frameRate is that of the clip in _clips,
\* timeline_clip the entry of _timeline when there is one; the playback
\* request is sent twice, and puts_ok is how many of the two the recorder
\* accepts
hyperdeck_warp_to_clip(h, clip_id, numerator, frameRate, timeline_clip, puts_ok) ==
    IF clip_id \notin h.clips
    THEN [h EXCEPT !.warp = [NoWarp EXCEPT !.pc = "ValueError"]]
    ELSE LET time_frames == int_of_product(numerator, frameRate)
             timeline_position ==
                get_timeline_position(clip_id \in h.timeline, timeline_clip, time_frames)
             put == "PUT /transports/0/playback"
         IN  IF puts_ok = 0
             THEN [h EXCEPT !.requests = Append(@, put),
                            !.warp = [pc |-> "HTTPStatusError",
                                      position |-> timeline_position, puts |-> 1]]
             ELSE [h EXCEPT !.requests = Append(Append(@, put), put),
                            !.warp = [pc |-> IF puts_ok = 1 THEN "HTTPStatusError"
                                             ELSE "returned",
                                      position |-> timeline_position, puts |-> 2]]

\* ------------------------------------------------------------------ event bus

\* Browser connections served, and the event types registered with
\* add_event_type that are followed
Connections == {"c1", "c2"}
EventTypes == {MATCH_LIST_EVENT, CONTROLLER_STATUS_EVENT}

\* The tasks that call notify without the coordinator's lock: the arena
\* session (_handle_historical_scores_update) and the recorder session
\* (_handle_hyperdeck_clip_list_update)
Tasks == {"arena session", "recorder session"}

\* A notify call of a task between its awaits: its event type, its number in
\* the order of the calls, and the subscribers of its copy not yet sent to
NoCall == [event_type |-> "none", call |-> 0, todo |-> {}]

\* What serve_client sent back for the last message of a connection
NoReply == [kind |-> "none", conn |-> "none", event_types |-> {}]

\* WebsocketManager.__init__ and the serve_client tasks: _clients; the
\* "subscriptions" set of each serve_client task; and the subscribers of the
\* notifiers.  Notifier.subscribers has the default value set(), which the
\* NamedTuple class evaluates once: add_event_type passes no subscribers, so
\* every Notifier holds this one set object
WebsocketManager_init ==
    [ clients |-> {},
      subscriptions |-> [conn \in Connections |-> {}],
      subscribers |-> {},
      sent |-> {},
      calls |-> [task \in Tasks |-> NoCall],
      issued |-> 0,
      received |-> [conn \in Connections |-> <<>>],
      raised |-> Returned,
      frame |-> "none",
      reply |-> NoReply ]

\* self._notifiers[event_type].subscribers
notifier_subscribers(w, event_type) == w.subscribers

\* WebsocketManager.serve_client, a subscribe request: unknown event types
\* are passed over; the response carries the initial data of the known ones
serve_subscribe(w, conn, event_types) ==
    LET known == event_types \cap EventTypes
    IN  [w EXCEPT !.subscribers = IF known # {} THEN @ \cup {conn} ELSE @,
                  !.subscriptions[conn] = @ \cup known,
                  !.sent = {},
                  !.raised = Returned,
                  !.frame = "subscribe",
                  !.reply = [kind |-> "subscribe", conn |-> conn,
                             event_types |-> known]]

\* WebsocketUnsubscribeResponse.unsubscribed_event_types as serve_client
\* fills it: list(subscriptions), taken after the requested event types were
\* removed from the set
unsubscribed_event_types(subscriptions, dropped) == subscriptions \ dropped

\* WebsocketManager.serve_client, an unsubscribe request
serve_unsubscribe(w, conn, event_types) ==
    LET dropped == event_types \cap w.subscriptions[conn]
    IN  [w EXCEPT !.subscribers = IF dropped # {} THEN @ \ {conn} ELSE @,
                  !.subscriptions[conn] = @ \ dropped,
                  !.sent = {},
                  !.raised = Returned,
                  !.frame = "unsubscribe",
                  !.reply = [kind |-> "unsubscribe", conn |-> conn,
                             event_types |->
                                unsubscribed_event_types(w.subscriptions[conn],
                                                         dropped)]]

\* WebsocketManager.serve_client, its "finally"
serve_finally(w, conn) ==
    [w EXCEPT !.clients = @ \ {conn},
              !.subscribers = IF w.subscriptions[conn] # {} THEN @ \ {conn} ELSE @,
              !.subscriptions[conn] = {},
              !.sent = {},
              !.raised = Returned,
              !.frame = "closed",
              !.reply = NoReply]

\* WebsocketManager.notify: the event goes to a copy of the notifier's
\* subscribers; a subscriber whose send_text raises WebSocketDisconnect is
\* discarded
websocket_notify(w, event_type, gone) ==
    IF event_type \notin EventTypes
    THEN [w EXCEPT !.sent = {}, !.raised = Returned, !.frame = "none",
                   !.reply = NoReply]
    ELSE LET subscribers == notifier_subscribers(w, event_type)
         IN  [w EXCEPT !.sent = {[conn |-> s, event_type |-> event_type] :
                                    s \in subscribers \ gone},
                       !.subscribers = @ \ (gone \cap subscribers),
                       !.raised = Returned, !.frame = "none",
                       !.reply = NoReply]

\* What "await subscriber.send_text" does: the text is sent; or the send
\* raises WebSocketDisconnect (the transport failed with an OSError); or it
\* raises another exception (RuntimeError for a socket that was closed
\* already)
SendOutcomes == {"sent", "WebSocketDisconnect", "RuntimeError"}

\* WebsocketManager.notify up to its loop (lines 87-106): unknown event types
\* return; the subscribers are copied.  Every call gets the next number
notify_begin(w, task, event_type) ==
    LET subscribers == notifier_subscribers(w, event_type)
        call == [event_type |-> event_type, call |-> w.issued + 1,
                 todo |-> subscribers]
    IN  IF event_type \notin EventTypes
        THEN [w EXCEPT !.sent = {}, !.raised = Returned, !.frame = "none",
                       !.reply = NoReply]
        ELSE [w EXCEPT !.issued = @ + 1,
                       !.calls[task] = IF subscribers = {} THEN NoCall ELSE call,
                       !.sent = {}, !.raised = Returned, !.frame = "none",
                       !.reply = NoReply]

\* WebsocketManager.notify, one turn of its loop (lines 107-111) for the call
\* of this task: the await of send_text is where other tasks run
notify_send(w, task, subscriber, outcome) ==
    LET call == w.calls[task]
        rest == [call EXCEPT !.todo = @ \ {subscriber}]
        next == IF rest.todo = {} THEN NoCall ELSE rest
        delivery == [event_type |-> call.event_type, call |-> call.call]
    IN  IF outcome = "sent"
        THEN [w EXCEPT !.received[subscriber] = Append(@, delivery),
                       !.calls[task] = next,
                       !.sent = {[conn |-> subscriber,
                                  event_type |-> call.event_type]},
                       !.raised = Returned, !.frame = "none",
                       !.reply = NoReply]
        ELSE IF outcome = "WebSocketDisconnect"
        THEN [w EXCEPT !.subscribers = @ \ {subscriber},
                       !.calls[task] = next,
                       !.sent = {}, !.raised = Returned, !.frame = "none",
                       !.reply = NoReply]
        ELSE [w EXCEPT !.calls[task] = NoCall,
                       !.sent = {}, !.raised = Failed, !.frame = "none",
                       !.reply = NoReply]

\* The commands registered with add_command_handler (controller.py:196-220)
Commands == {"load_match", "warp_to_time", "add_var_review", "exit_review", "update_event"}

\* command_handler.data_type.model_validate(msg.data): ExitReviewCommand has
\* no fields, so every dict passes; the other commands have required fields
command_data_validates(command_name, data_ok) ==
    command_name = "exit_review" \/ data_ok

\* C24 variant of command_dispatch, not the program's: the payload is handed
\* to the handler without validation
dispatch_without_validation(well_formed, command_name, data_ok) ==
    IF ~well_formed THEN "invalid message"
    ELSE IF command_name \notin Commands THEN "unknown command"
    ELSE "handler"

\* WebsocketManager.serve_client, a message that is not a subscription: where
\* it ends up (lines 130-135 and 185-202)
command_dispatch(well_formed, command_name, data_ok) ==
    IF ~well_formed THEN "invalid message"
    ELSE IF command_name \notin Commands THEN "unknown command"
    ELSE IF ~command_data_validates(command_name, data_ok) THEN "invalid data"
    ELSE "handler"

\* command_handler.handler(command_data) for the registered commands
command_handlers(c, m) ==
    IF m.command = "load_match" THEN handle_load_match_command(c, m.match_id, m.ok)
    ELSE IF m.command = "warp_to_time"
    THEN handle_warp_to_time_command(c, m.match_id, m.time, m.ok)
    ELSE IF m.command = "add_var_review"
    THEN handle_add_var_review_command(c, m.match_id, m.time)
    ELSE IF m.command = "exit_review" THEN handle_exit_review_command(c, m.ok)
    ELSE handle_update_event_command(c, m.match_id, m.event_id, m.patch)

\* WebsocketManager.serve_client, what the serve loop does with a command
\* message: every branch logs and goes on with the next message ("continue");
\* an exception of the handler is caught at line 203.  Nothing is sent back
serve_command(w, conn, branch, raised) ==
    [w EXCEPT !.frame = IF branch = "handler" /\ raised THEN "handler raised"
                        ELSE branch,
              !.sent = {},
              !.raised = Returned,
              !.reply = NoReply]

\* ------------------------------------------------------ the database folder
\* The variable db follows the records as a running process last saved them.
\* disk follows the files of the folder as the file system holds them when the
\* process may stop: a file is the text of its JSON, token by token

\* Match ids and event types of the records written, and the records
StoredIds == {"Q1", "Q2"}
EventNames == {"auto_scoring", "var_review"}
DiskRecords ==
    { [var_id |-> id, events |-> events] :
        id \in StoredIds,
        events \in {<<>>, <<"auto_scoring">>, <<"auto_scoring", "var_review">>} }

\* What DB.load_match returns for a file that is missing or invalid (None)
NoRecord == [var_id |-> "none", events |-> <<>>]

\* RecordedMatch.model_dump_json
model_dump_json(record) ==
    <<"{", "var_id", record.var_id, "events", "[">> \o record.events \o <<"]", "}">>

\* RecordedMatch.model_validate_json with the ValidationError caught by
\* _load_data_file: a text that is not the whole JSON of a record is rejected
model_validate_json(text) ==
    LET n == Len(text)
    IN  IF /\ n >= 7
           /\ text[1] = "{" /\ text[2] = "var_id" /\ text[3] \in StoredIds
           /\ text[4] = "events" /\ text[5] = "["
           /\ \A i \in 6..(n - 2) : text[i] \in EventNames
           /\ text[n - 1] = "]" /\ text[n] = "}"
        THEN [var_id |-> text[3], events |-> SubSeq(text, 6, n - 2)]
        ELSE NoRecord

\* DB._load_data_file for matches/<match_id>.json
load_match(files, match_id) ==
    IF match_id \notin DOMAIN files
    THEN NoRecord
    ELSE model_validate_json(files[match_id])

\* DB.list_matches
list_matches(files) == DOMAIN files

\* DB.load_all_matches: the records that load, by their var_id
load_all_matches(files) ==
    LET loaded == {load_match(files, match_id) : match_id \in list_matches(files)}
                        \ {NoRecord}
    IN  [var_id \in {match.var_id : match \in loaded} |->
            CHOOSE match \in loaded : match.var_id = var_id]

\* The save that the process is in the middle of: the file opened, the text to
\* write, and how much of it has reached the file
NoSave == [path |-> "none", text |-> <<>>, written |-> 0]

\* DB.__init__ over a folder, before the process has loaded it.  saved is the
\* record that the last save of a match which completed wrote (for the claims)
DB_over(files) ==
    [ files |-> files, running |-> FALSE, saving |-> NoSave, loaded |-> <<>>,
      saved |-> load_all_matches(files) ]

DB_init == DB_over(<<>>)

\* DB._save_data_file, path.open("w"): the file is created or truncated
save_data_file_open(d, record) ==
    [d EXCEPT !.files = Put(@, record.var_id, <<>>),
              !.saving = [path |-> record.var_id, text |-> model_dump_json(record),
                          written |-> 0]]

\* DB._save_data_file, f.write and the flushes of the file object: some more
\* of the text reaches the file
save_data_file_write(d, tokens) ==
    LET written == d.saving.written + tokens
    IN  [d EXCEPT !.files[d.saving.path] = SubSeq(d.saving.text, 1, written),
                  !.saving.written = written]

\* DB._save_data_file, the end of the "with" block
save_data_file_close(d) ==
    [d EXCEPT !.saving = NoSave,
              !.saved = Put(@, d.saving.path, model_validate_json(d.saving.text))]

\* ----------------------------------------------- the clients' subscribers

\* Callbacks subscribed to a notifier of a client, and how each ends when it
\* is awaited: it returns or it raises an Exception
Callbacks == {"VARController", "other"}
CallbackOutcomes == [Callbacks -> {Returned, Failed}]
SubscriberLists ==
    {<<"VARController">>, <<"VARController", "other">>, <<"other", "VARController">>}

\* a variant of await_callback without the try/except
callback_uncaught(h, notifier, callback, outcome) ==
    [h EXCEPT !.callbacks = Append(@, [notifier |-> notifier, callback |-> callback,
                                       outcome |-> outcome]),
              !.raised = IF outcome = Failed THEN Failed ELSE @]

\* one turn of the loop of _notify (cheesy_arena/client.py:300-303,
\* hyperdeck/client.py:314-317): the callback is awaited and its Exception is
\* caught and logged
await_callback(h, notifier, callback, outcome) ==
    [h EXCEPT !.callbacks = Append(@, [notifier |-> notifier, callback |-> callback,
                                       outcome |-> outcome])]

\* the loop of _notify over self._subscribers[notifier]; an exception that
\* leaves a turn leaves the loop
RECURSIVE notify_subscribers(_, _, _, _)
notify_subscribers(h, notifier, subscribers, outcomes) ==
    IF subscribers = <<>> \/ h.raised # Returned
    THEN h
    ELSE notify_subscribers(
            await_callback(h, notifier, Head(subscribers), outcomes[Head(subscribers)]),
            notifier, Tail(subscribers), outcomes)

\* the calls of _notify that a step of a client made, in the order of the
\* notifiers it emitted
RECURSIVE notify_emitted(_, _, _)
notify_emitted(h, notifiers, outcomes) ==
    IF notifiers = <<>> \/ h.raised # Returned
    THEN h
    ELSE notify_emitted(notify_subscribers(h, Head(notifiers), h.subscribers, outcomes),
                        Tail(notifiers), outcomes)

\* a step of a client with the callbacks it awaited: what the step itself
\* raised stays raised
run_callbacks(h, notifiers, outcomes) ==
    LET n == notify_emitted([h EXCEPT !.raised = Returned], notifiers, outcomes)
    IN  IF n.raised # Returned THEN n ELSE [n EXCEPT !.raised = h.raised]

\* the notifiers of the arena client's and of the recorder client's step
arena_emitted(a) == [i \in 1..Len(a.emitted) |-> a.emitted[i].notifier]

\* ------------------------------------------------------- coordinator lock

\* The tasks of the event loop that run coordinator handlers: the run() tasks
\* of the two clients, which await the handlers of their notifiers, a
\* serve_client task, and a delayed_stop task
CoordinatorTasks == {"arena session", "recorder session", "client command", "delayed stop"}

\* What a task is doing: no handler, waiting in "async with self._lock", or
\* in the body of a handler, where stop is what stop_recording answered it
NoStopOutcome == [kind |-> "none", clip |-> None]
NoHandler == [handler |-> "none", pc |-> "idle", stop |-> NoStopOutcome]

\* The task that made the last change and whether it held the lock
NoActor == [task |-> "none", holds |-> FALSE]

\* VARController.__init__: self._lock = asyncio.Lock()
Lock_init ==
    [ holder |-> "none",
      waiters |-> <<>>,
      running |-> [task \in CoordinatorTasks |-> NoHandler],
      acting |-> NoActor ]

\* asyncio.Lock.acquire as "async with self._lock" calls it: a free lock
\* without waiters is taken at once, otherwise the task joins the waiters,
\* also when it is the holder itself (the lock is not reentrant)
lock_acquire(l, task, handler) ==
    IF l.holder = "none" /\ l.waiters = <<>>
    THEN [l EXCEPT !.holder = task,
                   !.running[task] = [NoHandler EXCEPT !.handler = handler,
                                                       !.pc = "locked"]]
    ELSE [l EXCEPT !.waiters = Append(@, task),
                   !.running[task] = [NoHandler EXCEPT !.handler = handler,
                                                       !.pc = "waiting"]]

\* asyncio.Lock.release at the end of the "async with" block, reached when
\* the body returns and when it raises: the oldest waiter is woken and takes
\* the lock
lock_release(l, task) ==
    LET ended == [l EXCEPT !.running[task] = NoHandler]
    IN  IF l.waiters = <<>>
        THEN [ended EXCEPT !.holder = "none"]
        ELSE [ended EXCEPT !.holder = Head(l.waiters),
                           !.waiters = Tail(l.waiters),
                           !.running[Head(l.waiters)].pc = "locked"]

\* a variant of clip_list_update_entered in which the handler takes the lock
clip_list_update_locking(l, task) ==
    [lock_acquire(l, task, l.running[task].handler) EXCEPT
        !.running[task].stop = l.running[task].stop]

\* VARController._handle_hyperdeck_clip_list_update is entered by the task
\* that emitted CLIP_LIST_UPDATED: it has no "async with self._lock"
clip_list_update_entered(l, task) == l

\* the change a task makes, with whether the task holds the lock
lock_acting(l, task) == [l EXCEPT !.acting = [task |-> task, holds |-> l.holder = task]]

\* ------------------------------------------------------------- the machine
\* What is kept of the handler that ran last
Out(c) == [cmds |-> c.cmds, pubs |-> c.pubs, raised |-> c.raised]

RECURSIVE total_events(_, _)
total_events(ms, ids) ==
    IF ids = {}
    THEN 0
    ELSE LET id == CHOOSE x \in ids : TRUE
         IN  Len(ms[id].var_data.events) + total_events(ms, ids \ {id})

\* the records stay within the bounds of the model
Bounded(c) ==
    /\ Cardinality(DOMAIN c.matches) <= MaxMatches
    /\ total_events(c.matches, DOMAIN c.matches) <= MaxEvents

\* a handler ends: its effects become the coordinator's state
Done(c) ==
    /\ Bounded(c)
    /\ state' = c.state
    /\ current' = c.current
    /\ matches' = c.matches
    /\ db' = c.db
    /\ clips' = c.clips
    /\ out' = Out(c)

Init ==
    /\ state = Idle
    /\ current = NoMatch
    /\ matches = <<>>
    /\ db = <<>>
    /\ pending = <<>>
    /\ now = 0
    /\ match_data = PLACEHOLDER_MATCH_LOAD_MESSAGE
    /\ settings = [var_review_backdate_time |-> var_review_backdate_time]
    /\ clips = {}
    /\ timeline = {}
    /\ arena = CheesyArenaClient_init(None, None)
    /\ hyperdeck = HyperdeckClient_init
    /\ websocket = WebsocketManager_init
    /\ disk = DB_init
    /\ lock = Lock_init
    /\ out = [cmds |-> <<>>, pubs |-> <<>>, raised |-> FALSE]

\* CheesyArenaClient._handle_match_load, VARController._handle_match_data_update
MatchLoad(message) ==
    /\ match_data' = message
    /\ Done(notify(Ctx, CURRENT_MATCH_DATA_EVENT))
    /\ UNCHANGED <<lock, disk, arena, hyperdeck, websocket, pending, now, settings, timeline>>

\* ArenaNotifier.MATCH_STARTED
MatchStarted(startOk) ==
    /\ Done(handle_match_start(Ctx, startOk))
    /\ UNCHANGED <<lock, disk, arena, hyperdeck, websocket, pending, now, match_data, settings, timeline>>

\* ArenaNotifier.AUTO_PERIOD_ENDED
AutoPeriodEnded ==
    /\ Done(handle_auto_period_end(Ctx))
    /\ UNCHANGED <<lock, disk, arena, hyperdeck, websocket, pending, now, match_data, settings, timeline>>

\* ArenaNotifier.MATCH_ENDED: in Recording a delayed_stop task is created
MatchEnded ==
    /\ Done(handle_match_end(Ctx))
    /\ pending' = IF state = Recording
                  THEN Append(pending, [deadline |-> now + delayed_stop_delay, match |-> current])
                  ELSE pending
    /\ Len(pending') <= MaxPending
    /\ UNCHANGED <<lock, disk, arena, hyperdeck, websocket, now, match_data, settings, timeline>>

\* the sleep of the oldest delayed_stop task ends: _finalize_match_recording
DelayedStop(stopRes, warpOk) ==
    /\ pending # <<>>
    /\ Head(pending).deadline <= now
    /\ pending' = Tail(pending)
    /\ Done(finalize_match_recording(Ctx, stopRes, warpOk))
    /\ UNCHANGED <<lock, disk, arena, hyperdeck, websocket, now, match_data, settings, timeline>>

\* ArenaNotifier.MATCH_COMMITTED_OR_DISCARDED
MatchCommitted(stopRes, liveOk) ==
    /\ Done(handle_match_commit(Ctx, stopRes, liveOk))
    /\ UNCHANGED <<lock, disk, arena, hyperdeck, websocket, pending, now, match_data, settings, timeline>>

\* ArenaNotifier.REALTIME_SCORE_UPDATED with the fouls of the new realtimeScore
RealtimeScoreUpdated(red_fouls, blue_fouls) ==
    /\ Done(handle_realtime_score_update(Ctx, red_fouls, blue_fouls))
    /\ UNCHANGED <<lock, disk, arena, hyperdeck, websocket, pending, now, match_data, settings, timeline>>

\* operator commands
LoadMatchCommand(match_id, warpOk) ==
    /\ Done(handle_load_match_command(Ctx, match_id, warpOk))
    /\ UNCHANGED <<lock, disk, arena, hyperdeck, websocket, pending, now, match_data, settings, timeline>>

WarpToTimeCommand(match_id, time, warpOk) ==
    /\ Done(handle_warp_to_time_command(Ctx, match_id, time, warpOk))
    /\ UNCHANGED <<lock, disk, arena, hyperdeck, websocket, pending, now, match_data, settings, timeline>>

AddVarReviewCommand(match_id, time) ==
    /\ Done(handle_add_var_review_command(Ctx, match_id, time))
    /\ UNCHANGED <<lock, disk, arena, hyperdeck, websocket, pending, now, match_data, settings, timeline>>

ExitReviewCommand(liveOk) ==
    /\ Done(handle_exit_review_command(Ctx, liveOk))
    /\ UNCHANGED <<lock, disk, arena, hyperdeck, websocket, pending, now, match_data, settings, timeline>>

UpdateEventCommand(match_id, event_id, patch) ==
    /\ Done(handle_update_event_command(Ctx, match_id, event_id, patch))
    /\ UNCHANGED <<lock, disk, arena, hyperdeck, websocket, pending, now, match_data, settings, timeline>>

\* HyperdeckClient._handle_property_change("/timelines/0")
TimelineUpdated(keys) ==
    /\ timeline' = keys
    /\ LET c == [Ctx EXCEPT !.matches =
                    IF keys # timeline
                    THEN refresh_hyperdeck_clip_presence(matches, clips, keys)
                    ELSE @]
       IN  Done(IF keys # timeline THEN notify(c, MATCH_LIST_EVENT) ELSE c)
    /\ UNCHANGED <<lock, disk, arena, hyperdeck, websocket, pending, now, match_data, settings>>

\* HyperdeckClient._get_full_clip_list
ClipListFetched(keys) ==
    /\ LET c == [Ctx EXCEPT !.clips = keys]
       IN  Done(IF keys # clips THEN handle_hyperdeck_clip_list_update(c) ELSE c)
    /\ UNCHANGED <<lock, disk, arena, hyperdeck, websocket, pending, now, match_data, settings, timeline>>

\* time passes until the sleep of the oldest delayed_stop task ends (while no
\* task sleeps the passing of time is not followed)
Tick ==
    /\ pending # <<>>
    /\ Head(pending).deadline > now
    /\ Head(pending).deadline <= MaxTime
    /\ now' = Head(pending).deadline
    /\ UNCHANGED <<lock, disk, state, current, matches, db, pending, match_data, settings,
                   arena, hyperdeck, websocket,
                   clips, timeline, out>>

\* match ids an operator command may name
CommandIds == DOMAIN matches \cup {"nope"}

\* The match lifecycle alone: arena events, the delayed stop, loading and
\* leaving a historical match, the recorder's clip list and timeline
NextLifecycle ==
    \/ \E ok \in BOOLEAN :
            Cardinality(DOMAIN matches) < MaxLifecycleMatches /\ MatchStarted(ok)
    \/ AutoPeriodEnded
    \/ MatchEnded
    \/ \E r \in StopOutcomes, ok \in BOOLEAN : DelayedStop(r, ok)
    \/ \E r \in StopOutcomes, ok \in BOOLEAN : MatchCommitted(r, ok)
    \/ \E id \in CommandIds, ok \in BOOLEAN : LoadMatchCommand(id, ok)
    \/ \E ok \in BOOLEAN : ExitReviewCommand(ok)
    \/ \E id \in CommandIds, t \in CommandTimes, ok \in BOOLEAN : WarpToTimeCommand(id, t, ok)
    \/ \E k \in SUBSET ClipIds : TimelineUpdated(k)
    \/ \E k \in SUBSET ClipIds : ClipListFetched(k)
    \/ Tick

SpecLifecycle == Init /\ [][NextLifecycle]_vars

\* The events of a match: fouls of the realtime score, operator edits
NextEvents ==
    \/ \E m \in MatchLoadMessages : MatchLoad(m)
    \/ \E ok \in BOOLEAN :
            Cardinality(DOMAIN matches) < MaxAnnotatedMatches /\ MatchStarted(ok)
    \/ AutoPeriodEnded
    \/ \E r \in StopOutcomes, ok \in BOOLEAN : MatchCommitted(r, ok)
    \/ \E r \in RedFoulLists, b \in BlueFoulLists : RealtimeScoreUpdated(r, b)
    \/ \E id \in CommandIds, ok \in BOOLEAN : LoadMatchCommand(id, ok)
    \/ \E id \in CommandIds, t \in CommandTimes : AddVarReviewCommand(id, t)
    \/ \E id \in CommandIds, e \in 1..MaxEvents, p \in UpdatePatches : UpdateEventCommand(id, e, p)

SpecEvents == Init /\ [][NextEvents]_vars

\* VARController.__init__ with var_review_backdate_time as configured
InitConfigured ==
    /\ state = Idle
    /\ current = NoMatch
    /\ matches = <<>>
    /\ db = <<>>
    /\ pending = <<>>
    /\ now = 0
    /\ match_data = PLACEHOLDER_MATCH_LOAD_MESSAGE
    /\ settings \in {[var_review_backdate_time |-> t] : t \in BackdateTimes}
    /\ clips = {}
    /\ timeline = {}
    /\ arena = CheesyArenaClient_init(None, None)
    /\ hyperdeck = HyperdeckClient_init
    /\ websocket = WebsocketManager_init
    /\ disk = DB_init
    /\ lock = Lock_init
    /\ out = [cmds |-> <<>>, pubs |-> <<>>, raised |-> FALSE]

\* The events of a match under either configuration
SpecReview == InitConfigured /\ [][NextEvents]_vars

\* The allocation of match ids: matches loaded, started and committed
NextIds ==
    \/ \E m \in MatchLoadMessages : MatchLoad(m)
    \/ \E ok \in BOOLEAN : MatchStarted(ok)
    \/ \E r \in StopOutcomes, ok \in BOOLEAN : MatchCommitted(r, ok)

\* a record found in the database folder at startup: a committed match
StoredRecord(id) ==
    [var_id |-> id, arena_id |-> 1, clip_file_name |-> id, clip_id |-> None,
     match_start_timestamp |-> 0, recording_start_timestamp |-> 0,
     teams |-> [red |-> RedTeams, blue |-> BlueTeams], events |-> <<>>]

\* VARController.__init__ over a database folder that holds matches already
InitLoaded ==
    /\ \E ids \in StoredIdSets :
        /\ db = [id \in ids |-> StoredRecord(id)]
        /\ matches = [id \in ids |-> [var_data |-> StoredRecord(id), clip_available |-> FALSE]]
    /\ state = Idle
    /\ current = NoMatch
    /\ pending = <<>>
    /\ now = 0
    /\ match_data = PLACEHOLDER_MATCH_LOAD_MESSAGE
    /\ settings = [var_review_backdate_time |-> var_review_backdate_time]
    /\ clips = {}
    /\ timeline = {}
    /\ arena = CheesyArenaClient_init(None, None)
    /\ hyperdeck = HyperdeckClient_init
    /\ websocket = WebsocketManager_init
    /\ disk = DB_init
    /\ lock = Lock_init
    /\ out = [cmds |-> <<>>, pubs |-> <<>>, raised |-> FALSE]

SpecIds == InitLoaded /\ [][NextIds]_vars


\* The arena client's run() task
SetArena(r) ==
    /\ arena' =
        [ pc |-> r.pc, password |-> r.password, session_token |-> r.session_token,
          stored_token |-> r.stored_token, cookie |-> r.cookie,
          connected |-> r.connected, match_results |-> r.match_results,
          realtime_score |-> r.realtime_score, match_timing |-> r.match_timing,
          match_state |-> r.match_state, can_start_match |-> r.can_start_match,
          arena_data |-> r.arena_data, requests |-> r.requests, emitted |-> r.emitted,
          frame |-> r.frame, raised |-> r.raised,
          subscribers |-> r.subscribers, callbacks |-> r.callbacks ]
    /\ match_data' = r.match_data
    /\ UNCHANGED <<lock, disk, state, current, matches, db, pending, now, settings, clips, timeline,
                   hyperdeck, websocket, out>>

\* CheesyArenaClient.run up to its loop (client.py:176-183)
ArenaRun ==
    /\ arena.pc = "run"
    /\ SetArena([ArenaStep(ArenaCtx) EXCEPT
                    !.cookie = IF arena.session_token # None
                               THEN arena.session_token ELSE @,
                    !.pc = "start"])

\* one session attempt, from the probe to the first refresh
ArenaRunInternal(probe, login, token, save_ok, connect_ok, fetch_ok, results) ==
    /\ arena.pc = "start"
    /\ SetArena(arena_run_except(
            run_internal(ArenaStep(ArenaCtx), probe, login, token, save_ok,
                         connect_ok, fetch_ok, results)))

\* one turn of the receive loop (client.py:238-240)
ArenaMessage(message, fetch_ok, results) ==
    /\ arena.pc = "session"
    /\ LET r == handle_cheesy_message(ArenaStep(ArenaCtx), message, fetch_ok, results)
       IN  SetArena(arena_run_except(
                IF r.raised = Returned THEN r ELSE arena_session_closed(r)))

\* websocket.recv raises: the connection was closed or lost
ArenaConnectionClosed ==
    /\ arena.pc = "session"
    /\ SetArena(arena_run_except(
            arena_session_closed([ArenaStep(ArenaCtx) EXCEPT !.raised = Failed])))

\* the 3 seconds of asyncio.sleep are over (client.py:195)
ArenaBackoffElapsed ==
    /\ arena.pc = "backoff"
    /\ SetArena([ArenaStep(ArenaCtx) EXCEPT !.pc = "start"])

\* What the arena and the disk answer during one session attempt.  An answer
\* that the attempt does not get to ask for is fixed to the first of its kind
SessionAttempts ==
    { t \in [probe : ProbeAnswers, login : LoginAnswers, token : Tokens,
             save_ok : BOOLEAN, connect_ok : BOOLEAN, fetch_ok : BOOLEAN,
             results : ResultVersions] :
        /\ t.probe # 307 => t.login = 303
        /\ (t.probe # 307 \/ t.login # 303) => t.save_ok
        /\ (t.probe \notin {200, 307} \/ (t.probe = 307 /\ t.login # 303) \/ ~t.save_ok)
                => t.connect_ok
        /\ (~t.connect_ok \/ t.probe \notin {200, 307}
                \/ (t.probe = 307 /\ t.login # 303) \/ ~t.save_ok) => t.fetch_ok
        /\ ~t.fetch_ok => t.results = 1 }

\* A frame received, with the arena's answer to the refresh that a matchTime
\* frame may cause
ArenaDeliveries ==
    { d \in [message : ArenaMessages, fetch_ok : BOOLEAN, results : ResultVersions] :
        /\ ~(d.message.type = "matchTime" /\ d.message.valid
                /\ d.message.match_state = PRE_MATCH) => d.fetch_ok /\ d.results = 1
        /\ ~d.fetch_ok => d.results = 1 }

NextArena ==
    \/ ArenaRun
    \/ \E t \in SessionAttempts :
            ArenaRunInternal(t.probe, t.login, t.token, t.save_ok, t.connect_ok,
                             t.fetch_ok, t.results)
    \/ \E d \in ArenaDeliveries : ArenaMessage(d.message, d.fetch_ok, d.results)
    \/ ArenaConnectionClosed
    \/ ArenaBackoffElapsed

\* The arena client as constructed with either password setting and either
\* stored session state
InitArena ==
    /\ state = Idle
    /\ current = NoMatch
    /\ matches = <<>>
    /\ db = <<>>
    /\ pending = <<>>
    /\ now = 0
    /\ match_data = PLACEHOLDER_MATCH_LOAD_MESSAGE
    /\ settings = [var_review_backdate_time |-> var_review_backdate_time]
    /\ clips = {}
    /\ timeline = {}
    /\ arena \in {CheesyArenaClient_init(p, t) : p \in Passwords, t \in StoredTokens}
    /\ hyperdeck = HyperdeckClient_init
    /\ websocket = WebsocketManager_init
    /\ disk = DB_init
    /\ lock = Lock_init
    /\ out = [cmds |-> <<>>, pubs |-> <<>>, raised |-> FALSE]

\* The arena client's task with its frames, from an arena client without
\* password and stored session
SpecArena == Init /\ [][NextArena]_vars

\* The recorder client's run() task.  A CLIP_LIST_UPDATED notifier runs the
\* coordinator's _handle_hyperdeck_clip_list_update
SetHyperdeck(h) ==
    /\ hyperdeck' =
        [ pc |-> h.pc, connected |-> h.connected, transport_mode |-> h.transport_mode,
          playback_state |-> h.playback_state, requests |-> h.requests,
          emitted |-> h.emitted, raised |-> h.raised,
          stop |-> h.stop, warp |-> h.warp,
          subscribers |-> h.subscribers, callbacks |-> h.callbacks ]
    /\ timeline' = h.timeline
    /\ LET c == [Ctx EXCEPT !.clips = h.clips]
       IN  Done(IF \E i \in 1..Len(h.emitted) : h.emitted[i] = CLIP_LIST_UPDATED
                THEN notify([c EXCEPT !.matches =
                                refresh_hyperdeck_clip_presence(@, h.clips, h.timeline)],
                            MATCH_LIST_EVENT)
                ELSE c)
    /\ UNCHANGED <<lock, disk, arena, websocket, pending, now, match_data, settings>>

\* one session attempt, from the connection to the subscribe request
HyperdeckRunInternal(connect_ok, clips_ok, keys, send_ok) ==
    /\ hyperdeck.pc = "start"
    /\ SetHyperdeck(hyperdeck_run_except(
            hyperdeck_run_internal(HyperdeckCtx, connect_ok, clips_ok, keys, send_ok)))

\* one turn of the receive loop (client.py:141-165)
HyperdeckMessage(frame) ==
    /\ hyperdeck.pc = "session"
    /\ LET h == hyperdeck_handle_message(HyperdeckCtx, frame)
       IN  SetHyperdeck(hyperdeck_run_except(
                IF h.raised = Returned THEN h ELSE hyperdeck_session_closed(h)))

\* websocket.recv raises: the connection was closed or lost
HyperdeckConnectionClosed ==
    /\ hyperdeck.pc = "session"
    /\ SetHyperdeck(hyperdeck_run_except(
            hyperdeck_session_closed([HyperdeckCtx EXCEPT !.raised = Failed])))

\* the 3 seconds of asyncio.sleep are over (client.py:117)
HyperdeckBackoffElapsed ==
    /\ hyperdeck.pc = "backoff"
    /\ SetHyperdeck([HyperdeckCtx EXCEPT !.pc = "start"])

\* What the recorder answers during one session attempt
HyperdeckAttempts ==
    { t \in [connect_ok : BOOLEAN, clips_ok : BOOLEAN, keys : ClipKeySets,
             send_ok : BOOLEAN] :
        /\ ~t.connect_ok => t.clips_ok
        /\ ~t.clips_ok => t.keys = {} /\ t.send_ok }

NextHyperdeck ==
    \/ \E t \in HyperdeckAttempts :
            HyperdeckRunInternal(t.connect_ok, t.clips_ok, t.keys, t.send_ok)
    \/ \E frame \in HyperdeckFrames : HyperdeckMessage(frame)
    \/ HyperdeckConnectionClosed
    \/ HyperdeckBackoffElapsed

\* The recorder client's task with its frames
SpecHyperdeck == Init /\ [][NextHyperdeck]_vars

\* The frames followed while the two run() loops are studied: matchTime
\* frames whose handling may fail in the refresh of the match results, and
\* recorder frames whose validation fails
RunDeliveries ==
    { d \in ArenaDeliveries :
        /\ d.message.type = "matchTime"
        /\ Dispatched(d.message)
        /\ d.message.match_state \in {POST_MATCH, PRE_MATCH} }

RunFrames == {HyperdeckFrame("rejected", <<>>)}

ArenaAttempt ==
    \E t \in SessionAttempts :
        ArenaRunInternal(t.probe, t.login, t.token, t.save_ok, t.connect_ok,
                         t.fetch_ok, t.results)

HyperdeckAttempt ==
    \E t \in HyperdeckAttempts :
        HyperdeckRunInternal(t.connect_ok, t.clips_ok, t.keys, t.send_ok)

NextClients ==
    \/ ArenaRun
    \/ ArenaAttempt
    \/ \E d \in RunDeliveries : ArenaMessage(d.message, d.fetch_ok, d.results)
    \/ ArenaConnectionClosed
    \/ ArenaBackoffElapsed
    \/ HyperdeckAttempt
    \/ \E frame \in RunFrames : HyperdeckMessage(frame)
    \/ HyperdeckConnectionClosed
    \/ HyperdeckBackoffElapsed

\* The run() tasks of the two clients
SpecClients == InitArena /\ [][NextClients]_vars

\* Each run() is an asyncio task of the server's event loop, which resumes it
\* when its sleep of 3 seconds is over
FairSpecClients ==
    /\ SpecClients
    /\ WF_vars(ArenaBackoffElapsed)
    /\ WF_vars(HyperdeckBackoffElapsed)

\* The event bus and the browser connections it serves
SetWebsocket(w) ==
    /\ websocket' = w
    /\ UNCHANGED <<lock, disk, state, current, matches, db, pending, now, match_data, settings, clips,
                   timeline, arena, hyperdeck, out>>

\* WebsocketManager.serve_client up to its receive loop
ClientConnected(conn) ==
    /\ conn \notin websocket.clients
    /\ \A task \in Tasks : conn \notin websocket.calls[task].todo
    /\ SetWebsocket([websocket EXCEPT !.clients = @ \cup {conn},
                                      !.subscriptions[conn] = {},
                                      !.received[conn] = <<>>,
                                      !.sent = {},
                                      !.raised = Returned,
                                      !.frame = "accepted",
                                      !.reply = NoReply])

ClientSubscribes(conn, event_types) ==
    /\ conn \in websocket.clients
    /\ SetWebsocket(serve_subscribe(websocket, conn, event_types))

ClientUnsubscribes(conn, event_types) ==
    /\ conn \in websocket.clients
    /\ SetWebsocket(serve_unsubscribe(websocket, conn, event_types))

ClientDisconnected(conn) ==
    /\ conn \in websocket.clients
    /\ SetWebsocket(serve_finally(websocket, conn))

\* WebsocketManager.notify, called by the coordinator; gone are the
\* subscribers whose send_text raises WebSocketDisconnect
WebsocketNotify(event_type, gone) ==
    /\ gone \subseteq websocket.subscribers
    /\ SetWebsocket(websocket_notify(websocket, event_type, gone))

\* event types a request or a notification may name
RequestedEventTypes == SUBSET (EventTypes \cup {"nope"})

NextWebsocket ==
    \/ \E conn \in Connections : ClientConnected(conn)
    \/ \E conn \in Connections, event_types \in RequestedEventTypes :
            ClientSubscribes(conn, event_types)
    \/ \E conn \in Connections, event_types \in RequestedEventTypes :
            ClientUnsubscribes(conn, event_types)
    \/ \E conn \in Connections : ClientDisconnected(conn)
    \/ \E event_type \in EventTypes \cup {"nope"}, gone \in SUBSET Connections :
            WebsocketNotify(event_type, gone)

SpecWebsocket == Init /\ [][NextWebsocket]_vars

\* A handler that takes no lock calls notify from its task: the number of
\* calls followed is bounded
NotifyCalled(task, event_type) ==
    /\ websocket.calls[task] = NoCall
    /\ websocket.issued < MaxNotifies
    /\ SetWebsocket(notify_begin(websocket, task, event_type))

\* The call of a task sends to one subscriber of its copy; a text can only be
\* sent to a connection that is still served
NotifySends(task, subscriber, outcome) ==
    /\ subscriber \in websocket.calls[task].todo
    /\ outcome = "sent" => subscriber \in websocket.clients
    /\ SetWebsocket(notify_send(websocket, task, subscriber, outcome))

NextNotify ==
    \/ \E conn \in Connections : ClientConnected(conn)
    \/ \E conn \in Connections, event_types \in SUBSET EventTypes :
            ClientSubscribes(conn, event_types)
    \/ \E conn \in Connections : ClientDisconnected(conn)
    \/ \E task \in Tasks, event_type \in EventTypes \cup {"nope"} :
            NotifyCalled(task, event_type)
    \/ \E task \in Tasks, subscriber \in Connections, outcome \in SendOutcomes :
            NotifySends(task, subscriber, outcome)

SpecNotify == Init /\ [][NextNotify]_vars

\* A message of a served connection that is not a subscription request: text
\* that InboundWebsocketMessage rejects, or a command
ClientCommand(conn, m) ==
    /\ conn \in websocket.clients
    /\ LET branch == command_dispatch(m.well_formed, m.command, m.data_ok)
           c == IF branch = "handler" THEN command_handlers(Ctx, m) ELSE Ctx
       IN  /\ Done(c)
           /\ websocket' = serve_command(websocket, conn, branch, c.raised)
    /\ UNCHANGED <<lock, disk, arena, hyperdeck, pending, now, match_data, settings, timeline>>

\* A message as serve_client reads it: whether InboundWebsocketMessage
\* accepts the text, the command named, whether the command's data_type
\* accepts the data, the fields of the data, and whether the recorder request
\* that the handler may make succeeds
Message(well_formed, command, data_ok, match_id, event_id, patch, ok) ==
    [well_formed |-> well_formed, command |-> command, data_ok |-> data_ok,
     match_id |-> match_id, time |-> 4, event_id |-> event_id, patch |-> patch,
     ok |-> ok]

NoPatch == [field |-> "arena_foul_id", value |-> 7]

\* The messages followed.  A field that the message's branch does not read is
\* fixed to one value
ClientMessages ==
    { Message(FALSE, "nope", TRUE, "nope", 1, NoPatch, TRUE),
      Message(TRUE, "nope", TRUE, "nope", 1, NoPatch, TRUE) }
    \cup { Message(TRUE, command, FALSE, "nope", 1, NoPatch, TRUE) :
                command \in Commands \ {"exit_review"} }
    \cup { Message(TRUE, command, TRUE, id, 1, NoPatch, ok) :
                command \in {"load_match", "warp_to_time"}, id \in CommandIds,
                ok \in BOOLEAN }
    \cup { Message(TRUE, "add_var_review", TRUE, id, 1, NoPatch, TRUE) : id \in CommandIds }
    \cup { Message(TRUE, "exit_review", TRUE, "nope", 1, NoPatch, ok) : ok \in BOOLEAN }
    \cup { Message(TRUE, "update_event", TRUE, id, e, patch, TRUE) :
                id \in CommandIds, e \in 1..MaxEvents, patch \in UpdatePatches }

\* The connection of the panel that sends the operator's commands
Panels == {"c1"}

\* The events of a match with the operator's commands arriving through the
\* serve loop of a connection
NextServe ==
    \/ \E m \in MatchLoadMessages : MatchLoad(m)
    \/ \E ok \in BOOLEAN :
            Cardinality(DOMAIN matches) < MaxAnnotatedMatches /\ MatchStarted(ok)
    \/ \E r \in StopOutcomes, ok \in BOOLEAN : MatchCommitted(r, ok)
    \/ \E conn \in Panels : ClientConnected(conn)
    \/ \E conn \in Panels : ClientDisconnected(conn)
    \/ \E conn \in Panels, m \in ClientMessages : ClientCommand(conn, m)

SpecServe == Init /\ [][NextServe]_vars

\* Clip ids that a stored record may carry
StoredClipIds == ClipIds \cup {None}

\* VARController.__init__ (lines 93-96 and 222) over a database folder that is
\* empty or holds a committed match with or without a clip id: the entries are
\* built with clip_available False and refreshed against the recorder client,
\* which has no clips yet
InitRecorded ==
    /\ \E ids \in {{}, {"Q1"}}, clip_id \in StoredClipIds :
        /\ db = [id \in ids |-> [StoredRecord(id) EXCEPT !.clip_id = clip_id]]
        /\ matches = refresh_hyperdeck_clip_presence(
                        [id \in ids |-> [var_data |-> db[id], clip_available |-> FALSE]],
                        {}, {})
    /\ state = Idle
    /\ current = NoMatch
    /\ pending = <<>>
    /\ now = 0
    /\ match_data = PLACEHOLDER_MATCH_LOAD_MESSAGE
    /\ settings = [var_review_backdate_time |-> var_review_backdate_time]
    /\ clips = {}
    /\ timeline = {}
    /\ arena = CheesyArenaClient_init(None, None)
    /\ hyperdeck = HyperdeckClient_init
    /\ websocket = WebsocketManager_init
    /\ disk = DB_init
    /\ lock = Lock_init
    /\ out = [cmds |-> <<>>, pubs |-> <<>>, raised |-> FALSE]

\* The match lifecycle and the recorder's clip list and timeline, after a
\* start over either folder
SpecClips == InitRecorded /\ [][NextLifecycle]_vars

\* The events of a match together with its end and finalization: every
\* handler that writes a record
NextRecords ==
    \/ NextEvents
    \/ MatchEnded
    \/ \E r \in StopOutcomes, ok \in BOOLEAN : DelayedStop(r, ok)
    \/ Tick

SpecRecords == Init /\ [][NextRecords]_vars

\* The database folder and a server process that may stop at any point
SetDisk(d) ==
    /\ disk' = d
    /\ UNCHANGED <<lock, state, current, matches, db, pending, now, match_data, settings, clips,
                   timeline, arena, hyperdeck, websocket, out>>

\* the process starts: VARController.__init__ loads all matches
ProcessStarted ==
    /\ ~disk.running
    /\ SetDisk([disk EXCEPT !.running = TRUE,
                            !.loaded = load_all_matches(disk.files)])

\* the process stops (killed, crashed, power lost): what had not reached the
\* file is lost
ProcessStopped ==
    /\ disk.running
    /\ SetDisk([disk EXCEPT !.running = FALSE, !.saving = NoSave, !.loaded = <<>>])

SaveMatchOpened(record) ==
    /\ disk.running
    /\ disk.saving = NoSave
    /\ SetDisk(save_data_file_open(disk, record))

SaveMatchWritten(tokens) ==
    /\ disk.running
    /\ disk.saving # NoSave
    /\ disk.saving.written + tokens <= Len(disk.saving.text)
    /\ SetDisk(save_data_file_write(disk, tokens))

SaveMatchClosed ==
    /\ disk.running
    /\ disk.saving # NoSave
    /\ disk.saving.written = Len(disk.saving.text)
    /\ SetDisk(save_data_file_close(disk))

\* Folders the process may be started over: empty, one match, and a match
\* next to a file that is not a record
Folders ==
    { <<>>,
      [id \in {"Q1"} |-> model_dump_json([var_id |-> "Q1", events |-> <<"auto_scoring">>])],
      [id \in {"Q1", "Q2"} |->
            IF id = "Q1" THEN <<"{", "var_id">>
            ELSE model_dump_json([var_id |-> "Q2", events |-> <<>>])] }

InitDisk ==
    /\ disk \in {DB_over(files) : files \in Folders}
    /\ lock = Lock_init
    /\ state = Idle
    /\ current = NoMatch
    /\ matches = <<>>
    /\ db = <<>>
    /\ pending = <<>>
    /\ now = 0
    /\ match_data = PLACEHOLDER_MATCH_LOAD_MESSAGE
    /\ settings = [var_review_backdate_time |-> var_review_backdate_time]
    /\ clips = {}
    /\ timeline = {}
    /\ arena = CheesyArenaClient_init(None, None)
    /\ hyperdeck = HyperdeckClient_init
    /\ websocket = WebsocketManager_init
    /\ out = [cmds |-> <<>>, pubs |-> <<>>, raised |-> FALSE]

NextDisk ==
    \/ ProcessStarted
    \/ ProcessStopped
    \/ \E record \in DiskRecords : SaveMatchOpened(record)
    \/ \E tokens \in 1..MaxTokens : SaveMatchWritten(tokens)
    \/ SaveMatchClosed

SpecDisk == InitDisk /\ [][NextDisk]_vars

\* stop_recording is called and sends the stop request
StopRecordingCalled(post_ok, interval, timeout) ==
    /\ hyperdeck.stop.pc # "polling"
    /\ SetHyperdeck(stop_recording_begin(HyperdeckCtx, post_ok, interval, timeout))

\* the call in progress makes one turn of its loop
StopRecordingPolled(answer, took) ==
    /\ hyperdeck.stop.pc = "polling"
    /\ SetHyperdeck(stop_recording_poll(HyperdeckCtx, answer, took))

NextStop ==
    \/ \E post_ok \in BOOLEAN, interval \in PollIntervals, timeout \in FinalizeTimeouts :
            StopRecordingCalled(post_ok, interval, timeout)
    \/ \E answer \in PollAnswers, took \in RequestTimes : StopRecordingPolled(answer, took)

\* The calls of stop_recording
SpecStop == Init /\ [][NextStop]_vars

\* the event loop resumes the call when its request or its sleep is over:
\* httpx gives every request a timeout and asyncio.sleep ends
FairSpecStop ==
    SpecStop /\ WF_vars(\E answer \in PollAnswers, took \in RequestTimes :
                            StopRecordingPolled(answer, took))

\* warp_to_clip is called
WarpToClipCalled(clip_id, numerator, frameRate, timeline_clip, puts_ok) ==
    SetHyperdeck(hyperdeck_warp_to_clip(HyperdeckCtx, clip_id, numerator, frameRate,
                                        timeline_clip, puts_ok))

NextWarp ==
    \/ \E keys \in ClipKeySets : ClipListFetched(keys)
    \/ \E keys \in ClipKeySets : TimelineUpdated(keys)
    \/ \E clip_id \in ClipIds, numerator \in TimeNumerators, frameRate \in FrameRates,
          timeline_clip \in TimelineClips, puts_ok \in 0..2 :
            WarpToClipCalled(clip_id, numerator, frameRate, timeline_clip, puts_ok)

\* The calls of warp_to_clip while the clip list and the timeline change
SpecWarp == Init /\ [][NextWarp]_vars

\* The recorder client's task receiving one property value per frame, with the
\* calls of stop_recording
ClipListFrames ==
    {HyperdeckFrame("propertyValueChanged", <<p>>) : p \in PropertyValues}

NextClipList ==
    \/ \E t \in HyperdeckAttempts :
            HyperdeckRunInternal(t.connect_ok, t.clips_ok, t.keys, t.send_ok)
    \/ \E frame \in ClipListFrames : HyperdeckMessage(frame)
    \/ HyperdeckConnectionClosed
    \/ HyperdeckBackoffElapsed
    \/ \E post_ok \in BOOLEAN, interval \in PollIntervals, timeout \in FinalizeTimeouts :
            StopRecordingCalled(post_ok, interval, timeout)
    \/ \E answer \in PollAnswers, took \in RequestTimes : StopRecordingPolled(answer, took)

SpecClipList == Init /\ [][NextClipList]_vars

\* The handlers with "async with self._lock" that each task runs
LockHandlers ==
    [task \in CoordinatorTasks |->
        CASE task = "arena session" ->
                {"_handle_match_start", "_handle_match_end", "_handle_match_commit"}
          [] task = "client command" ->
                {"_handle_load_match_command", "_handle_exit_review_command"}
          [] task = "delayed stop" -> {"_finalize_match_recording"}
          [] OTHER -> {}]

\* a task reaches the "async with self._lock" of a handler; a delayed_stop
\* task does so when its sleep is over.  Handlers that would take the match
\* list or the delayed_stop tasks beyond the bounds are not followed
LockRequested(task, handler) ==
    /\ lock.running[task].pc = "idle"
    /\ handler \in LockHandlers[task]
    /\ handler = "_handle_match_start" => Cardinality(DOMAIN matches) < MaxLockMatches
    /\ handler = "_handle_match_end" => pending = <<>>
    /\ IF task = "delayed stop"
       THEN /\ pending # <<>>
            /\ Head(pending).deadline <= now
            /\ pending' = Tail(pending)
       ELSE pending' = pending
    /\ lock' = lock_acquire(lock, task, handler)
    /\ UNCHANGED <<state, current, matches, db, now, match_data, settings, clips, timeline,
                   arena, hyperdeck, websocket, disk, out>>

\* whether the handler awaits stop_recording (controller.py:270-271, 305)
AwaitsStopRecording(handler) ==
    /\ state = Recording
    /\ \/ handler = "_finalize_match_recording" /\ current # NoMatch
       \/ handler = "_handle_match_commit" /\ current # NoMatch

\* stop_recording ends in the handler of a task that holds the lock: when it
\* returns a clip id it has emitted CLIP_LIST_UPDATED, whose handler
\* _handle_hyperdeck_clip_list_update ran in this task
StopRecordingReturned(task, res) ==
    /\ lock.holder = task
    /\ lock.running[task].pc = "locked"
    /\ AwaitsStopRecording(lock.running[task].handler)
    /\ LET stopped == [lock EXCEPT !.running[task].stop = res,
                                   !.running[task].pc = "stopped"]
       IN  IF res.kind = "ok"
           THEN /\ lock' = clip_list_update_entered(lock_acting(stopped, task), task)
                /\ Done(handle_hyperdeck_clip_list_update(
                            [Ctx EXCEPT !.clips = @ \cup {res.clip}]))
           ELSE /\ lock' = stopped
                /\ UNCHANGED <<state, current, matches, db, clips, out>>
    /\ UNCHANGED <<pending, now, match_data, settings, timeline, arena, hyperdeck,
                   websocket, disk>>

\* the body of the handler, with what the recorder answers to its requests
handler_body(c, handler, stop, ok, match_id) ==
    CASE handler = "_handle_match_start" -> handle_match_start(c, ok)
      [] handler = "_handle_match_end" -> handle_match_end(c)
      [] handler = "_handle_match_commit" -> handle_match_commit(c, stop, ok)
      [] handler = "_handle_load_match_command" ->
            handle_load_match_command(c, match_id, ok)
      [] handler = "_handle_exit_review_command" -> handle_exit_review_command(c, ok)
      [] handler = "_finalize_match_recording" -> finalize_match_recording(c, stop, ok)
      [] OTHER -> c

\* the handler of a task that holds the lock ends, by returning or by
\* raising, and the "async with" block releases the lock
HandlerEnded(task, ok, match_id) ==
    /\ lock.holder = task
    /\ lock.running[task].pc =
            IF AwaitsStopRecording(lock.running[task].handler) THEN "stopped" ELSE "locked"
    /\ lock.running[task].handler = "_handle_match_start"
            => Cardinality(DOMAIN matches) < MaxLockMatches
    /\ Done(handler_body(Ctx, lock.running[task].handler, lock.running[task].stop, ok,
                         match_id))
    /\ pending' = IF lock.running[task].handler = "_handle_match_end" /\ state = Recording
                  THEN Append(pending, [deadline |-> now + delayed_stop_delay,
                                        match |-> current])
                  ELSE pending
    /\ Len(pending') <= 1
    /\ lock' = lock_release(lock_acting(lock, task), task)
    /\ UNCHANGED <<now, match_data, settings, timeline, arena, hyperdeck, websocket, disk>>

\* the recorder session's task handles a change of the timeline: it runs
\* _handle_hyperdeck_clip_list_update, which takes no lock
TimelineUpdatedUnlocked(keys) ==
    /\ keys # timeline
    /\ timeline' = keys
    /\ Done(notify([Ctx EXCEPT !.matches =
                        refresh_hyperdeck_clip_presence(matches, clips, keys)],
                   MATCH_LIST_EVENT))
    /\ lock' = clip_list_update_entered(lock_acting(lock, "recorder session"),
                                        "recorder session")
    /\ UNCHANGED <<pending, now, match_data, settings, arena, hyperdeck, websocket, disk>>

NextLock ==
    \/ \E task \in CoordinatorTasks, handler \in UNION {LockHandlers[t] : t \in CoordinatorTasks} :
            LockRequested(task, handler)
    \/ \E task \in CoordinatorTasks, res \in StopOutcomes : StopRecordingReturned(task, res)
    \/ \E task \in CoordinatorTasks, ok \in BOOLEAN, match_id \in CommandIds :
            HandlerEnded(task, ok, match_id)
    \/ \E keys \in ClipKeySets : TimelineUpdatedUnlocked(keys)
    \/ Tick

\* The tasks that run the coordinator's handlers, with the lock
SpecLock == Init /\ [][NextLock]_vars

\* Both clients in a session, with one or two callbacks subscribed to their
\* notifiers
InitSubscribed ==
    /\ state = Idle
    /\ current = NoMatch
    /\ matches = <<>>
    /\ db = <<>>
    /\ pending = <<>>
    /\ now = 0
    /\ match_data = PLACEHOLDER_MATCH_LOAD_MESSAGE
    /\ settings = [var_review_backdate_time |-> var_review_backdate_time]
    /\ clips = {}
    /\ timeline = {}
    /\ \E s \in SubscriberLists :
            arena = [CheesyArenaClient_init(None, None) EXCEPT
                        !.pc = "session", !.connected = TRUE, !.subscribers = s]
    /\ \E s \in SubscriberLists :
            hyperdeck = [HyperdeckClient_init EXCEPT
                            !.pc = "session", !.connected = TRUE, !.subscribers = s]
    /\ websocket = WebsocketManager_init
    /\ disk = DB_init
    /\ lock = Lock_init
    /\ out = [cmds |-> <<>>, pubs |-> <<>>, raised |-> FALSE]

\* one turn of the arena client's receive loop, with how the callbacks end
\* that its notifiers await; the refresh of the match results succeeds
ArenaMessageNotified(message, outcomes) ==
    /\ arena.pc = "session"
    /\ LET r == handle_cheesy_message(ArenaStep(ArenaCtx), message, TRUE, 1)
           n == run_callbacks(r, arena_emitted(r), outcomes)
       IN  SetArena(arena_run_except(
                IF n.raised = Returned THEN n ELSE arena_session_closed(n)))

\* one turn of the recorder client's receive loop, with how the callbacks end
HyperdeckMessageNotified(frame, outcomes) ==
    /\ hyperdeck.pc = "session"
    /\ LET h == hyperdeck_handle_message(HyperdeckCtx, frame)
           n == run_callbacks(h, h.emitted, outcomes)
       IN  SetHyperdeck(hyperdeck_run_except(
                IF n.raised = Returned THEN n ELSE hyperdeck_session_closed(n)))

\* Frames whose handling raises nothing by itself: the matchTime frames of
\* the arena, and the recorder's changes of its timeline
NotifiedMessages ==
    { m \in ArenaMessages : Dispatched(m) /\ m.type = "matchTime" }
NotifiedFrames ==
    { f \in ClipListFrames :
        /\ f.values[1].valid
        /\ f.values[1].property = "/timelines/0" }

NextCallbacks ==
    \/ \E message \in NotifiedMessages, outcomes \in CallbackOutcomes :
            ArenaMessageNotified(message, outcomes)
    \/ \E frame \in NotifiedFrames, outcomes \in CallbackOutcomes :
            HyperdeckMessageNotified(frame, outcomes)

\* The receive loops of the two clients with the callbacks of their notifiers
SpecCallbacks == InitSubscribed /\ [][NextCallbacks]_vars

\* ------------------------------------------------------------------ claims
\* what a handler did, read from its outcome o: a recorder request, a topic
AskedIn(o, cmd) == \E i \in 1..Len(o.cmds) : o.cmds[i].cmd = cmd

PublishedIn(o, topic) == \E i \in 1..Len(o.pubs) : o.pubs[i] = topic

\* the stored record of match id is its record in memory
Persisted(d, ms, id) == id \in DOMAIN d /\ id \in DOMAIN ms /\ d[id] = ms[id].var_data

\* stop_recording ending with the TimeoutError of the finalization poll
StopTimeout == [kind |-> "timeout", clip |-> None]

\* C1: whenever no handler holds the coordinator lock, a current match is set
\* in Recording, ReviewingCurrentMatch and ReviewingHistoricalMatch and unset
\* in Idle, whatever the recorder calls of the handlers answered.
C1_CurrentMatchIffNotIdle == (current = NoMatch) <=> (state = Idle)

\* C2: MATCH_COMMITTED_OR_DISCARDED handled in Recording or
\* ReviewingCurrentMatch persists the current match's record, unloads the
\* match, asks the recorder for the live view and leaves the controller Idle.
C2_CommitPersistsUnloadsShowsLive ==
    [][ ( /\ state \in {Recording, ReviewingCurrentMatch}
          /\ current # NoMatch
          /\ \E r \in StopOutcomes, ok \in BOOLEAN : MatchCommitted(r, ok) )
        => /\ Persisted(db', matches', current)
           /\ current' = NoMatch
           /\ AskedIn(out', "show_live_view")
           /\ state' = Idle ]_vars

\* C3: MATCH_ENDED in Recording schedules the delayed stop endgame-scoring-delay
\* + recording-extra-time later; when it fires in Recording the coordinator
\* stops the recorder, stores the returned clip id on the current match,
\* persists the record, moves to ReviewingCurrentMatch and warps to the time
\* of the match's AUTO_SCORING event, or to 0 when it has none.
C3_DelayedStopFinalizes ==
    [][ /\ (state = Recording /\ MatchEnded)
            => pending' = Append(pending,
                    [deadline |-> now + endgame_scoring_delay + recording_extra_time,
                     match |-> current])
        /\ \A r \in StopOutcomes, ok \in BOOLEAN :
            (state = Recording /\ current # NoMatch /\ DelayedStop(r, ok))
            => /\ AskedIn(out', "stop_recording")
               /\ r.clip # None
               /\ current \in DOMAIN matches'
               /\ matches'[current].var_data.clip_id = r.clip
               /\ Persisted(db', matches', current)
               /\ state' = ReviewingCurrentMatch
               /\ current' = current
               /\ LET events == matches'[current].var_data.events
                      autos == {i \in 1..Len(events) : events[i].event_type = AUTO_SCORING}
                  IN  \E i \in 1..Len(out'.cmds) :
                        /\ out'.cmds[i].cmd = "warp_to_clip"
                        /\ out'.cmds[i].clip = r.clip
                        /\ IF autos = {}
                           THEN out'.cmds[i].time = 0
                           ELSE \E j \in autos : out'.cmds[i].time = events[j].time ]_vars

\* C4: when the delayed stop fires in Recording and stop_recording times out
\* waiting for the clip, the controller still moves to ReviewingCurrentMatch,
\* with the match's clip id unset and clip-available false.
C4_StopTimeoutStillAdvances ==
    [][ ( /\ state = Recording
          /\ current # NoMatch
          /\ \E ok \in BOOLEAN : DelayedStop(StopTimeout, ok) )
        => /\ state' = ReviewingCurrentMatch
           /\ matches'[current].var_data.clip_id = None
           /\ ~matches'[current].clip_available ]_vars

\* C5: a commit handled after MATCH_ENDED while the match is still Recording
\* persists the record, unloads it and leaves the controller Idle with no
\* current match; the delayed stop of that match, firing afterwards, changes
\* neither the controller state, the current match nor any record.
C5_CommitBeforeDelayedStop ==
    [][ /\ ( /\ state = Recording
             /\ current # NoMatch
             /\ \E i \in 1..Len(pending) : pending[i].match = current
             /\ \E r \in StopOutcomes, ok \in BOOLEAN : MatchCommitted(r, ok) )
            => /\ Persisted(db', matches', current)
               /\ current' = NoMatch
               /\ state' = Idle
        /\ ( /\ \E r \in StopOutcomes, ok \in BOOLEAN : DelayedStop(r, ok)
             /\ Head(pending).match # NoMatch
             /\ Head(pending).match # current )
            => UNCHANGED <<state, current, matches, db>> ]_vars

\* C6: MATCH_STARTED handled in Idle allocates a match id, asks the recorder
\* to start recording under that name, creates the record with the timestamps
\* and both alliances' teams, makes it the current match, adds it to the match
\* list, persists it, and the controller state becomes Recording.
C6_MatchStartCreatesRecord ==
    [][ (state = Idle /\ \E ok \in BOOLEAN : MatchStarted(ok))
        => \E id \in DOMAIN matches' \ DOMAIN matches :
            /\ \E i \in 1..Len(out'.cmds) : out'.cmds[i] = Cmd("start_recording", id, None, 0)
            /\ matches'[id].var_data.var_id = id
            /\ matches'[id].var_data.match_start_timestamp = now
            /\ matches'[id].var_data.recording_start_timestamp = now
            /\ matches'[id].var_data.teams = [red |-> match_data.red, blue |-> match_data.blue]
            /\ current' = id
            /\ Persisted(db', matches', id)
            /\ state' = Recording ]_vars

\* the arena foul ids carried by a sequence of events, and by wire fouls
EventFoulIds(events) == {events[i].arena_foul_id : i \in 1..Len(events)} \ {None}

WireFoulIds(fouls) == {fouls[i].foul_id : i \in 1..Len(fouls)} \ {None}

\* the event type the spec gives a foul
FoulEventType(foul) == IF foul.is_major THEN MAJOR_FOUL ELSE MINOR_FOUL

\* C7: in every match no two events carry the same non-null arena foul id,
\* after any REALTIME_SCORE_UPDATED notifications and update_event commands.
C7_FoulIdsUnique ==
    \A id \in DOMAIN matches :
        LET events == matches[id].var_data.events
        IN  \A i, j \in 1..Len(events) :
                (i # j /\ events[i].arena_foul_id # None)
                    => events[i].arena_foul_id # events[j].arena_foul_id

\* C8: in Recording a REALTIME_SCORE_UPDATED adds one event for every foul id
\* of the update that no event of the current match carries yet (MAJOR_FOUL
\* when the foul is major, else MINOR_FOUL) and no other event; outside
\* Recording it adds no event.
C8_NewFoulsAdded ==
    [][ \A r \in RedFoulLists, b \in BlueFoulLists :
            RealtimeScoreUpdated(r, b)
            => IF state = Recording /\ current # NoMatch
               THEN LET old == matches[current].var_data.events
                        new == matches'[current].var_data.events
                        fresh == WireFoulIds(r \o b) \ EventFoulIds(old)
                    IN  /\ Len(new) = Len(old) + Cardinality(fresh)
                        /\ \A i \in 1..Len(old) : new[i].event_id = old[i].event_id
                        /\ \A k \in fresh :
                            \E i \in (Len(old) + 1)..Len(new), n \in 1..Len(r \o b) :
                                /\ new[i].arena_foul_id = k
                                /\ (r \o b)[n].foul_id = k
                                /\ new[i].event_type = FoulEventType((r \o b)[n])
               ELSE \A id \in DOMAIN matches :
                        Len(matches'[id].var_data.events) = Len(matches[id].var_data.events) ]_vars

\* each foul id of the update is listed once
ListedOnce(fouls) ==
    \A m, n \in 1..Len(fouls) : (m # n /\ fouls[m].foul_id # None) => fouls[m].foul_id # fouls[n].foul_id

\* the event of foul k after a REALTIME_SCORE_UPDATED that lists foul: its type
\* and team index follow the foul
FoulMirrored(event, foul, teams) ==
    /\ event.event_type = FoulEventType(foul)
    /\ IF \E t \in 1..Len(teams) : teams[t] = foul.team_id
       THEN event.team_idx # None /\ teams[event.team_idx + 1] = foul.team_id
       ELSE event.team_idx = None

\* C9: in Recording, a foul of a REALTIME_SCORE_UPDATED whose id an event of
\* the current match already carries creates no event; that event's type
\* becomes MAJOR_FOUL or MINOR_FOUL by is-major and its team index the index of
\* the foul's team among the alliance's teams (none when not listed); the
\* record is persisted and match_list published only if an event changed.
C9_KnownFoulUpdatedInPlace ==
    [][ \A r \in RedFoulLists, b \in BlueFoulLists :
            ( /\ state = Recording
              /\ current # NoMatch
              /\ ListedOnce(r \o b)
              /\ WireFoulIds(r \o b) \subseteq EventFoulIds(matches[current].var_data.events)
              /\ RealtimeScoreUpdated(r, b) )
            => LET old == matches[current].var_data.events
                   new == matches'[current].var_data.events
                   teams == matches[current].var_data.teams
               IN  /\ Len(new) = Len(old)
                   /\ \A i \in 1..Len(old) :
                        /\ \A n \in 1..Len(r) :
                            (r[n].foul_id # None /\ r[n].foul_id = old[i].arena_foul_id)
                                => FoulMirrored(new[i], r[n], teams.red)
                        /\ \A n \in 1..Len(b) :
                            (b[n].foul_id # None /\ b[n].foul_id = old[i].arena_foul_id)
                                => FoulMirrored(new[i], b[n], teams.blue)
                   /\ (new = old) => ~PublishedIn(out', MATCH_LIST_EVENT) /\ db' = db
                   /\ (new # old) => PublishedIn(out', MATCH_LIST_EVENT)
                                        /\ Persisted(db', matches', current) ]_vars

\* base_n
Suffixed(base, n) == base \o "_" \o ToString(n)

\* the id the spec gives a match started while keys are the match list's
\* keys: base, or base_n for the smallest n >= 1 with base_n not a key
SmallestFreeId(base, keys) ==
    IF base \notin keys
    THEN base
    ELSE Suffixed(base,
            CHOOSE n \in 1..(Cardinality(keys) + 1) :
                /\ Suffixed(base, n) \notin keys
                /\ \A m \in 1..(n - 1) : Suffixed(base, m) \in keys)

\* C10: the id allocated at MATCH_STARTED is base (the loaded match's short
\* name, plus _replay for a replay) when base is no key of the match list,
\* else base_n for the smallest n >= 1 such that base_n is no key; the new
\* record takes no existing id and every existing record stays as it is.
C10_AllocatesSmallestFreeId ==
    [][ \A ok \in BOOLEAN :
            MatchStarted(ok)
            => LET base == IF match_data.is_replay
                           THEN match_data.short_name \o "_replay"
                           ELSE match_data.short_name
                   id == SmallestFreeId(base, DOMAIN matches)
               IN  /\ \E i \in 1..Len(out'.cmds) :
                        out'.cmds[i] = Cmd("start_recording", id, None, 0)
                   /\ id \notin DOMAIN matches
                   /\ \A k \in DOMAIN matches : k \in DOMAIN matches' /\ matches'[k] = matches[k]
                   /\ \A k \in DOMAIN db : k \in DOMAIN db' /\ db'[k] = db[k]
                   /\ DOMAIN matches' = (IF ok THEN DOMAIN matches \cup {id} ELSE DOMAIN matches)
                   /\ ok => matches'[id].var_data.var_id = id /\ current' = id
                                /\ Persisted(db', matches', id) ]_vars

\* C10 witness: Q1_replay and Q1_replay_1 exist, and the match started last
\* was recorded and stored as Q1_replay_2
C10_ThirdReplayId ==
    /\ {"Q1_replay", "Q1_replay_1", "Q1_replay_2"} \subseteq DOMAIN matches
    /\ current = "Q1_replay_2"
    /\ \E i \in 1..Len(out.cmds) : out.cmds[i] = Cmd("start_recording", "Q1_replay_2", None, 0)
    /\ Persisted(db, matches, "Q1_replay_2")

\* C10 witness with a gap in the ids: the folder held Q1 and Q1_2 at startup,
\* and the match started last was recorded and stored as Q1_1
C10_GapFilled ==
    /\ {"Q1", "Q1_1", "Q1_2"} \subseteq DOMAIN matches
    /\ current = "Q1_1"
    /\ \E i \in 1..Len(out.cmds) : out.cmds[i] = Cmd("start_recording", "Q1_1", None, 0)
    /\ Persisted(db, matches, "Q1_1")

\* C11: load_match is honoured only in Idle or ReviewingHistoricalMatch and
\* only for an id of the match list: that match becomes the current match and
\* the state ReviewingHistoricalMatch; in Recording or ReviewingCurrentMatch,
\* or for an unknown id, state and current match stay and no recorder request
\* is made.
C11_LoadMatchOnlyWhenIdleOrHistorical ==
    [][ \A id \in CommandIds, ok \in BOOLEAN :
            LoadMatchCommand(id, ok)
            => IF state \in {Idle, ReviewingHistoricalMatch} /\ id \in DOMAIN matches
               THEN current' = id /\ state' = ReviewingHistoricalMatch
               ELSE /\ state' = state
                    /\ current' = current
                    /\ out'.cmds = <<>> ]_vars

\* C11 witness: a match of the list was loaded for review and the recorder
\* was asked to show its clip
C11_HistoricalMatchLoaded ==
    /\ state = ReviewingHistoricalMatch
    /\ current \in DOMAIN matches
    /\ AskedIn(out, "warp_to_clip")
    /\ PublishedIn(out, CONTROLLER_STATUS_EVENT)

\* C12: exit_review in ReviewingHistoricalMatch unloads the current match,
\* asks the recorder for the live view and leaves the controller Idle with no
\* current match; in any other state it changes nothing and makes no recorder
\* request.
C12_ExitReviewLeavesIdle ==
    [][ \A ok \in BOOLEAN :
            ExitReviewCommand(ok)
            => IF state = ReviewingHistoricalMatch
               THEN current # NoMatch
                        => /\ current' = NoMatch
                           /\ AskedIn(out', "show_live_view")
                           /\ state' = Idle
               ELSE /\ UNCHANGED <<state, current, matches, db>>
                    /\ out'.cmds = <<>> ]_vars

\* C13: add_var_review appends a VAR_REVIEW event only when there is a current
\* match and the command names it; otherwise no match's events, no stored
\* record and no publication change.  Accepted in Recording, the event's time
\* is max(0, time - backdate); in any other state it is the command's time.
C13_AddVarReviewOnlyForCurrentMatch ==
    [][ \A id \in CommandIds, t \in CommandTimes :
            AddVarReviewCommand(id, t)
            => IF current # NoMatch /\ id = current
               THEN LET old == matches[current].var_data.events
                        new == matches'[current].var_data.events
                    IN  /\ Len(new) = Len(old) + 1
                        /\ \A i \in 1..Len(old) : new[i] = old[i]
                        /\ new[Len(new)].event_type = VAR_REVIEW
                        /\ new[Len(new)].time =
                            (IF state = Recording
                             THEN (IF t - settings.var_review_backdate_time > 0
                                   THEN t - settings.var_review_backdate_time
                                   ELSE 0)
                             ELSE t)
                        /\ \A k \in DOMAIN matches \ {current} : matches'[k] = matches[k]
                        /\ Persisted(db', matches', current)
               ELSE /\ matches' = matches
                    /\ db' = db
                    /\ out'.pubs = <<>> ]_vars

\* C13 witness: a review added in Recording with a backdate offset larger
\* than the command's time, stored at time 0
C13_BackdatedReviewClamped ==
    /\ state = Recording
    /\ current \in DOMAIN matches
    /\ settings.var_review_backdate_time > 0
    /\ PublishedIn(out, MATCH_LIST_EVENT)
    /\ LET events == matches[current].var_data.events
       IN  /\ events # <<>>
           /\ events[Len(events)].event_type = VAR_REVIEW
           /\ events[Len(events)].time = 0
           /\ Persisted(db, matches, current)

\* a review added while reviewing a historical match keeps the command's time
C13_ReviewWhileReviewing ==
    /\ state = ReviewingHistoricalMatch
    /\ current \in DOMAIN matches
    /\ settings.var_review_backdate_time > 0
    /\ LET events == matches[current].var_data.events
       IN  /\ events # <<>>
           /\ events[Len(events)].event_type = VAR_REVIEW
           /\ events[Len(events)].time \in CommandTimes

\* the notifiers of a step, in the order they were emitted
Notifiers(emitted) == [i \in 1..Len(emitted) |-> emitted[i].notifier]

IsLifecycle(notifier) == notifier \in LifecycleNotifiers

\* the lifecycle notifiers the transition table gives for a matchTime message
TransitionTable(previous, message) ==
    IF previous = message THEN <<>>
    ELSE CASE message = AUTO_PERIOD -> <<MATCH_STARTED>>
           [] message = PAUSE_PERIOD -> <<AUTO_PERIOD_ENDED>>
           [] message = TELEOP_PERIOD -> <<TELEOP_PERIOD_STARTED>>
           [] message = POST_MATCH -> <<MATCH_ENDED>>
           [] message = PRE_MATCH /\ previous = POST_MATCH -> <<MATCH_COMMITTED_OR_DISCARDED>>
           [] OTHER -> <<>>

\* C14: every matchTime message received makes the client emit exactly the
\* lifecycle notifiers the transition table gives for the change from the
\* previous match state to the message's: MATCH_STARTED into AUTO_PERIOD,
\* AUTO_PERIOD_ENDED into PAUSE_PERIOD, TELEOP_PERIOD_STARTED into
\* TELEOP_PERIOD, MATCH_ENDED into POST_MATCH, MATCH_COMMITTED_OR_DISCARDED
\* from POST_MATCH into PRE_MATCH, and none otherwise.
C14_NotifiersFollowTransitionTable ==
    [][ \A d \in ArenaDeliveries :
            (/\ d.message.type = "matchTime"
             /\ Dispatched(d.message)
             /\ ArenaMessage(d.message, d.fetch_ok, d.results))
            => SelectSeq(Notifiers(arena'.emitted), IsLifecycle)
                    = TransitionTable(arena.match_state, d.message.match_state) ]_vars

\* C15: whenever a matchTime message makes the client emit
\* MATCH_COMMITTED_OR_DISCARDED, the client has refreshed match_results and
\* emitted HISTORICAL_SCORES_UPDATED earlier in the same handler, so that the
\* subscribers of the commit notifier run with the refreshed results merged
\* into the match list; a change from POST_MATCH into PRE_MATCH whose refresh
\* succeeds emits both, in this order.
C15_RefreshBeforeCommitNotifier ==
    [][ \A d \in ArenaDeliveries :
            ArenaMessage(d.message, d.fetch_ok, d.results)
            => LET e == arena'.emitted
               IN  /\ \A i \in 1..Len(e) :
                        e[i].notifier = MATCH_COMMITTED_OR_DISCARDED
                        => /\ \E j \in 1..(i - 1) : e[j].notifier = HISTORICAL_SCORES_UPDATED
                           /\ e[i].arena_data = d.results
                           /\ arena'.match_results = d.results
                   /\ (/\ d.message.type = "matchTime"
                       /\ Dispatched(d.message)
                       /\ arena.match_state = POST_MATCH
                       /\ d.message.match_state = PRE_MATCH
                       /\ d.fetch_ok)
                      => Notifiers(e) = <<MATCH_TIME_UPDATED, HISTORICAL_SCORES_UPDATED,
                                          MATCH_COMMITTED_OR_DISCARDED>> ]_vars

\* C15 witness: a commit announced after a refresh that fetched version 2
C15_CommitAfterRefresh ==
    /\ arena.pc = "session"
    /\ arena.match_state = PRE_MATCH
    /\ arena.match_results = 2
    /\ Notifiers(arena.emitted) = <<MATCH_TIME_UPDATED, HISTORICAL_SCORES_UPDATED,
                                    MATCH_COMMITTED_OR_DISCARDED>>
    /\ arena.emitted[3].arena_data = 2

\* the snapshots subscribers can read from the arena client
ArenaSnapshots ==
    <<arena.match_results, arena.realtime_score, arena.match_timing, arena.match_state,
      arena.can_start_match, match_data>>

\* C18: a frame from the arena that is malformed, has an unknown type, has a
\* type without handler, or carries data its type's validator rejects is
\* skipped: no snapshot changes, no notifier is emitted, no request is made,
\* and the session stays connected and in its receive loop, where every
\* frame can be received next.
C18_BadArenaFrameSkipped ==
    [][ \A d \in ArenaDeliveries :
            (~Dispatched(d.message) /\ ArenaMessage(d.message, d.fetch_ok, d.results))
            => /\ ArenaSnapshots' = ArenaSnapshots
               /\ arena'.emitted = <<>>
               /\ arena'.requests = <<>>
               /\ arena'.raised = Returned
               /\ arena'.connected = arena.connected
               /\ arena'.pc = "session" ]_vars

\* C18 witness: a frame was skipped in a session that had already received
\* data, and the session goes on
C18_FrameSkippedInSession ==
    /\ arena.frame = "skipped"
    /\ arena.pc = "session"
    /\ arena.connected
    /\ arena.match_state # PRE_MATCH
    /\ arena.match_timing = 1

\* the snapshots subscribers can read from the recorder client
HyperdeckSnapshots == <<hyperdeck.transport_mode, hyperdeck.playback_state, clips, timeline>>

\* a frame InboundWebsocketMessage rejects, or a property-change event whose
\* value the property's model rejects
MalformedHyperdeckFrame(frame) ==
    \/ frame.kind = "rejected"
    \/ frame.kind = "propertyValueChanged" /\ ~frame.values[1].valid

\* a property-change event for a property the client has no case for
UnknownHyperdeckFrame(frame) ==
    /\ frame.kind = "propertyValueChanged"
    /\ frame.values[1].valid
    /\ frame.values[1].property
            \notin {"/transports/0/playback", "/transports/0", "/timelines/0"}

\* C19: a frame from the recorder that is unknown or malformed (it fails the
\* validation of the message, or its property value fails validation) is
\* skipped: the session stays connected and in its receive loop, no snapshot
\* changes and no notifier is emitted.
C19_BadRecorderFrameSkipped ==
    [][ \A frame \in HyperdeckFrames :
            (/\ MalformedHyperdeckFrame(frame) \/ UnknownHyperdeckFrame(frame)
             /\ HyperdeckMessage(frame))
            => /\ hyperdeck'.connected
               /\ hyperdeck'.pc = "session"
               /\ hyperdeck'.emitted = <<>>
               /\ HyperdeckSnapshots' = HyperdeckSnapshots ]_vars

\* C16: neither run() returns on a session failure.  A step of the arena
\* client that fails with anything but ExitServer leaves its task sleeping the
\* backoff, and every such sleep ends with the task at the start of a new
\* session attempt; the task ends only with the ExitServer raised inside a
\* session, which it passes on as it is.  The recorder client's task retries
\* the same way and never ends.
C16_RunRetriesUntilExit ==
    /\ [](arena.raised = Failed => arena.pc = "backoff")
    /\ [](arena.pc = "exited" <=> arena.raised = ExitServer)
    /\ (arena.pc = "backoff") ~> (arena.pc = "start")
    /\ [](hyperdeck.raised = Failed => hyperdeck.pc = "backoff")
    /\ [](hyperdeck.pc # "exited" /\ hyperdeck.raised # ExitServer)
    /\ (hyperdeck.pc = "backoff") ~> (hyperdeck.pc = "start")

\* C16 witness: the arena client has just connected again after a session in
\* which it had received a matchTime frame, while the recorder client sleeps
\* after a failure
C16_ReconnectedAfterFailure ==
    /\ arena.pc = "session"
    /\ \E i \in 1..Len(arena.requests) : arena.requests[i].op = "websockets.connect"
    /\ arena.match_state = POST_MATCH
    /\ hyperdeck.pc = "backoff"
    /\ hyperdeck.raised = Failed

\* the requests of a step, in the order they were made
Ops(requests) == [i \in 1..Len(requests) |-> requests[i].op]

Asked(requests, op) == \E i \in 1..Len(requests) : requests[i].op = op

\* C17: in a session attempt of the arena client, a 307 answer to the probe
\* with no password configured raises ExitServer; a 307 followed by a login
\* answered 303 stores the session token in memory, in the cookies and in
\* arena_client.json before the WebSocket is opened, and the WebSocket is
\* opened with it; a login answered 200 raises ExitServer; a 200 answer to the
\* probe makes no login request and keeps the session state; any other answer
\* to the probe or the login fails the attempt, which sleeps the backoff and
\* never ends the task.
C17_SessionProtocol ==
    [][ \A t \in SessionAttempts :
            ArenaRunInternal(t.probe, t.login, t.token, t.save_ok, t.connect_ok,
                             t.fetch_ok, t.results)
            => LET r == arena'.requests
               IN  /\ (t.probe = 307 /\ arena.password = None)
                        => /\ arena'.raised = ExitServer /\ arena'.pc = "exited"
                           /\ Ops(r) = <<"GET /panels/referee">>
                   /\ (t.probe = 307 /\ arena.password # None /\ t.login = 303 /\ t.save_ok)
                        => /\ arena'.session_token = t.token
                           /\ arena'.cookie = t.token
                           /\ arena'.stored_token = t.token
                           /\ SubSeq(Ops(r), 1, 3) = <<"GET /panels/referee", "POST /login",
                                                       "save_arena_client_state">>
                           /\ \A i \in 1..Len(r) :
                                r[i].op = "websockets.connect"
                                => i > 3 /\ r[i].token = t.token
                           /\ arena'.raised # ExitServer
                   /\ Asked(r, "websockets.connect") /\ t.probe = 307
                        => /\ arena'.stored_token = t.token
                           /\ arena'.session_token = t.token
                   /\ (t.probe = 307 /\ arena.password # None /\ t.login = 200)
                        => /\ arena'.raised = ExitServer /\ arena'.pc = "exited"
                           /\ ~Asked(r, "websockets.connect")
                   /\ t.probe = 200
                        => /\ ~Asked(r, "POST /login")
                           /\ arena'.session_token = arena.session_token
                           /\ arena'.stored_token = arena.stored_token
                           /\ arena'.raised # ExitServer
                   /\ (\/ t.probe \notin {200, 307}
                       \/ t.probe = 307 /\ arena.password # None /\ t.login \notin {200, 303})
                        => /\ arena'.raised = Failed /\ arena'.pc = "backoff"
                           /\ ~Asked(r, "websockets.connect") ]_vars

\* C17 witness: a client that had no session logged in with the token 2, saved
\* it and opened the WebSocket with it
C17_LoggedInThenConnected ==
    /\ arena.pc = "session"
    /\ arena.session_token = 2 /\ arena.stored_token = 2 /\ arena.cookie = 2
    /\ Len(arena.requests) >= 4
    /\ arena.requests[2].op = "POST /login"
    /\ arena.requests[2].token = None
    /\ arena.requests[3].op = "save_arena_client_state"
    /\ arena.requests[4] = [op |-> "websockets.connect", token |-> 2]

\* C20: notify(T) sends the event of T only to connections that are served,
\* have subscribed to T and have not unsubscribed from T since: a connection
\* subscribed only to another event type receives nothing.
C20_NotifyOnlySubscribersOfTopic ==
    [][ \A event_type \in EventTypes \cup {"nope"}, gone \in SUBSET Connections :
            WebsocketNotify(event_type, gone)
            => \A d \in websocket'.sent :
                    /\ d.event_type = event_type
                    /\ d.conn \in websocket.clients
                    /\ event_type \in websocket.subscriptions[d.conn] ]_vars

\* the position of a delivery in what a connection received, 0 when absent
RECURSIVE PositionOf(_, _)
PositionOf(deliveries, d) ==
    IF deliveries = <<>> THEN 0
    ELSE IF deliveries[Len(deliveries)] = d THEN Len(deliveries)
    ELSE PositionOf(SubSeq(deliveries, 1, Len(deliveries) - 1), d)

Deliveries(conn) == {websocket.received[conn][i] : i \in DOMAIN websocket.received[conn]}

\* C21: notify calls of one event type are serialized, also when different
\* tasks issue them concurrently: two connections that both received two
\* events of the same event type received them in the same relative order.
C21_SameOrderForAllSubscribers ==
    \A x \in Connections, y \in Connections :
        \A d \in Deliveries(x) \cap Deliveries(y), e \in Deliveries(x) \cap Deliveries(y) :
            d.event_type = e.event_type
            => ( PositionOf(websocket.received[x], d) < PositionOf(websocket.received[x], e)
                 <=> PositionOf(websocket.received[y], d) < PositionOf(websocket.received[y], e) )

\* C22: a notify call delivers its event to a subscriber at most once, and a
\* subscriber receives the events in the order in which the notify calls
\* were made, also when calls of different tasks overlap.
C22_DeliveredOnceInCallOrder ==
    \A conn \in Connections :
        \A i \in DOMAIN websocket.received[conn], j \in DOMAIN websocket.received[conn] :
            i < j => websocket.received[conn][i].call < websocket.received[conn][j].call

\* C23: a send to one subscriber that fails, with whatever exception, is
\* isolated: the subscriber is removed from the event type's subscribers, the
\* call goes on with the other subscribers of its copy, and nothing is raised
\* to the handler that called notify.
C23_SendFailureIsolated ==
    [][ \A task \in Tasks, subscriber \in Connections,
           outcome \in SendOutcomes \ {"sent"} :
            NotifySends(task, subscriber, outcome)
            => /\ subscriber \notin
                    notifier_subscribers(websocket', websocket.calls[task].event_type)
               /\ websocket'.calls[task].todo = websocket.calls[task].todo \ {subscriber}
               /\ websocket'.raised = Returned ]_vars

\* C24: a message that names an unknown command or whose payload fails the
\* command's validation is dropped: no handler runs, the coordinator's state
\* does not change, nothing is requested, published or sent back; and after
\* every command message, also one whose handler raised, the connection is
\* still served with its subscriptions.
C24_BadCommandDropped ==
    [][ \A conn \in Panels, m \in ClientMessages :
            ClientCommand(conn, m)
            => /\ (m.command \notin Commands
                        \/ ~command_data_validates(m.command, m.data_ok))
                    => /\ websocket'.frame \notin {"handler", "handler raised"}
                       /\ state' = state /\ current' = current
                       /\ matches' = matches /\ db' = db /\ clips' = clips
                       /\ out'.cmds = <<>> /\ out'.pubs = <<>> /\ ~out'.raised
                       /\ websocket'.reply = NoReply /\ websocket'.sent = {}
               /\ conn \in websocket'.clients
               /\ websocket'.subscriptions = websocket.subscriptions
               /\ websocket'.subscribers = websocket.subscribers
               /\ websocket'.raised = Returned ]_vars

\* C24 witness: a command with a bad payload was dropped while a match was
\* being recorded, and the connection is still served
C24_InvalidDataDropped ==
    /\ websocket.frame = "invalid data"
    /\ state = Recording
    /\ websocket.clients # {}

\* C25: the reply to an unsubscribe request lists exactly the requested event
\* types that the connection was subscribed to; afterwards the connection is
\* not among the subscribers of those event types, and its other subscriptions
\* are as before.
C25_UnsubscribeReplyListsRemoved ==
    [][ \A conn \in Connections, event_types \in RequestedEventTypes :
            ClientUnsubscribes(conn, event_types)
            => LET removed == event_types \cap websocket.subscriptions[conn]
                   others == websocket.subscriptions[conn] \ event_types
               IN  /\ websocket'.reply.kind = "unsubscribe"
                   /\ websocket'.reply.conn = conn
                   /\ websocket'.reply.event_types = removed
                   /\ \A t \in removed : conn \notin notifier_subscribers(websocket', t)
                   /\ websocket'.subscriptions[conn] = others
                   /\ \A t \in others : conn \in notifier_subscribers(websocket', t) ]_vars

\* C26: between handlers, every entry of the match list has clip_available
\* true exactly when its record has a clip id and the recorder client holds
\* that id both in its clip list and in its timeline.
C26_ClipAvailableIffPlayable ==
    \A id \in DOMAIN matches :
        matches[id].clip_available
            <=> ( /\ matches[id].var_data.clip_id # None
                  /\ matches[id].var_data.clip_id \in clips
                  /\ matches[id].var_data.clip_id \in timeline )

\* C26 witness: the clip of a match loaded at startup became playable after
\* the recorder's clip list and timeline arrived, while another match that was
\* committed without a clip id is not available
C26_StoredClipBecamePlayable ==
    /\ "Q1" \in DOMAIN matches
    /\ matches["Q1"].clip_available
    /\ \E id \in DOMAIN matches :
            /\ matches[id].var_data.clip_id = None
            /\ ~matches[id].clip_available
            /\ id # current

C28_SaveMatchAtomic ==
    /\ [](\A id \in DOMAIN disk.saved :
                \/ load_match(disk.files, id) = disk.saved[id]
                \/ /\ disk.saving.path = id
                   /\ load_match(disk.files, id) = model_validate_json(disk.saving.text))
    /\ [][ ProcessStarted
            => /\ \A id \in DOMAIN disk.saved : id \in DOMAIN disk'.loaded
               /\ \A id \in StoredIds :
                    IF load_match(disk.files, id) = NoRecord
                    THEN id \notin DOMAIN disk'.loaded
                    ELSE /\ id \in DOMAIN disk'.loaded
                         /\ disk'.loaded[id] = load_match(disk.files, id) ]_vars
\* C29: stop_recording always terminates. Every poll but the first comes at
\* least one configured interval after the one before; the call returns at the
\* first poll whose answer is a full clip record and returns that record's id,
\* never one from an incomplete record; once the configured limit has elapsed
\* without such a poll it raises TimeoutError without polling again (a request
\* the recorder fails ends the call with that request's error), so the polls
\* of one call are bounded and a call in progress always ends.
StopCall == hyperdeck.stop

C29_StopRecordingTerminates ==
    /\ [](/\ StopCall.pc \in {"idle", "polling", "returned", "TimeoutError",
                              "HTTPStatusError"}
          /\ StopCall.pc = "returned" =>
                /\ StopCall.answer.kind = "complete"
                /\ StopCall.clip_id = StopCall.answer.clip
                /\ StopCall.clip_id \in clips
          /\ StopCall.pc = "TimeoutError" =>
                /\ StopCall.elapsed >= StopCall.clip_finalize_timeout
                /\ StopCall.answer.kind # "complete"
          /\ StopCall.pc = "polling" =>
                /\ StopCall.answer.kind \in {"none", "null", "incomplete"}
                /\ StopCall.polls * StopCall.clip_finalize_poll_interval
                        <= StopCall.elapsed
          /\ StopCall.polls >= 1 =>
                (StopCall.polls - 1) * StopCall.clip_finalize_poll_interval
                    < StopCall.clip_finalize_timeout)
    /\ [][\A answer \in PollAnswers, took \in RequestTimes :
            StopRecordingPolled(answer, took) =>
                /\ StopCall.elapsed >= StopCall.clip_finalize_timeout
                        <=> hyperdeck'.stop.pc = "TimeoutError"
                /\ hyperdeck'.stop.pc = "TimeoutError" =>
                        hyperdeck'.stop.polls = StopCall.polls
                /\ hyperdeck'.stop.pc = "polling" =>
                        hyperdeck'.stop.elapsed
                            >= StopCall.elapsed + StopCall.clip_finalize_poll_interval
                /\ (answer.kind = "complete"
                        /\ StopCall.elapsed < StopCall.clip_finalize_timeout)
                        => hyperdeck'.stop.pc = "returned"]_vars
    /\ (StopCall.pc = "polling") ~> (StopCall.pc # "polling")

\* the recorder's first answer has no id, a later poll yields the full record
C29_ReturnedAfterIncompletePoll ==
    /\ StopCall.pc = "returned"
    /\ StopCall.polls >= 2
    /\ StopCall.clip_id \in ClipIds
\* C30: a call of warp_to_clip for a clip of the clip list requests the
\* timeline position timelineIn + clamp(floor(t * fps), clipIn,
\* clipIn + frameCount - 1) - clipIn of the clip's timeline entry, which lies
\* in timelineIn .. timelineIn + frameCount - 1; a call for a clip id that is
\* not in the clip list raises ValueError and sends no playback request.
floor_of_product(numerator, frameRate) == (numerator * frameRate) \div TimeDenominator

clamp(x, low, high) == IF x < low THEN low ELSE IF x > high THEN high ELSE x

C30_WarpPositionWithinClip ==
    [][\A clip_id \in ClipIds, numerator \in TimeNumerators, frameRate \in FrameRates,
          timeline_clip \in TimelineClips, puts_ok \in 0..2 :
        WarpToClipCalled(clip_id, numerator, frameRate, timeline_clip, puts_ok) =>
            IF clip_id \in clips
            THEN /\ hyperdeck'.warp.puts >= 1
                 /\ clip_id \in timeline
                 /\ hyperdeck'.warp.position =
                        timeline_clip.timelineIn
                            + clamp(floor_of_product(numerator, frameRate),
                                    timeline_clip.clipIn,
                                    timeline_clip.clipIn + timeline_clip.frameCount - 1)
                            - timeline_clip.clipIn
                 /\ hyperdeck'.warp.position >= timeline_clip.timelineIn
                 /\ hyperdeck'.warp.position
                        <= timeline_clip.timelineIn + timeline_clip.frameCount - 1
            ELSE /\ hyperdeck'.warp.pc = "ValueError"
                 /\ hyperdeck'.warp.puts = 0
                 /\ hyperdeck'.requests = <<>>]_vars
\* C31: the recorder client emits CLIP_LIST_UPDATED only when the set of clip
\* ids of its clip list or of its timeline changes: a timeline update, a fetch
\* of the clip list or a completed stop_recording that leaves both sets as
\* they were emits no CLIP_LIST_UPDATED.
HyperdeckEmitted(h, notifier) == \E i \in 1..Len(h.emitted) : h.emitted[i] = notifier

C31_ClipListUpdatedOnlyOnChange ==
    [][(clips' = clips /\ timeline' = timeline)
            => ~HyperdeckEmitted(hyperdeck', CLIP_LIST_UPDATED)]_vars
\* C32: every change of the controller state, of the current match, of the
\* match list (the clip_available of its entries included) and of the stored
\* records is made by a task that holds the coordinator lock, so that no task
\* changes them while another task is inside a handler that holds the lock.
C32_MutationsUnderLock ==
    [][<<state, current, matches, db>>' # <<state, current, matches, db>>
            => /\ lock'.acting.holds
               /\ lock.holder \in {"none", lock'.acting.task}]_vars
\* C33: when a handler subscribed to a notifier of the arena client or of the
\* recorder client raises an exception, the handlers subscribed after it are
\* still called (every subscriber of every notifier emitted was called, in
\* order), and the client's session and receive loop go on.
RECURSIVE ExpectedCallbacks(_, _)
ExpectedCallbacks(notifiers, subscribers) ==
    IF notifiers = <<>>
    THEN <<>>
    ELSE [i \in 1..Len(subscribers) |->
            [notifier |-> Head(notifiers), callback |-> subscribers[i]]]
         \o ExpectedCallbacks(Tail(notifiers), subscribers)

CallbacksCalled(h) ==
    [i \in 1..Len(h.callbacks) |->
        [notifier |-> h.callbacks[i].notifier, callback |-> h.callbacks[i].callback]]

C33_HandlerExceptionIsolated ==
    /\ CallbacksCalled(arena) = ExpectedCallbacks(arena_emitted(arena), arena.subscribers)
    /\ CallbacksCalled(hyperdeck) = ExpectedCallbacks(hyperdeck.emitted, hyperdeck.subscribers)
    /\ arena.pc = "session" /\ arena.connected /\ arena.raised = Returned
    /\ hyperdeck.pc = "session" /\ hyperdeck.connected /\ hyperdeck.raised = Returned

\* the first of two subscribers of a lifecycle notifier raised and the second
\* was called
C33_SecondCalledAfterFirstRaised ==
    /\ \E i \in 1..(Len(arena.callbacks) - 1) :
            /\ arena.callbacks[i].outcome = Failed
            /\ arena.callbacks[i].notifier = MATCH_STARTED
            /\ arena.callbacks[i + 1].notifier = MATCH_STARTED
            /\ arena.callbacks[i + 1].callback # arena.callbacks[i].callback
    /\ arena.pc = "session"
\* C34: a delayed_stop task finalizes only the match whose MATCH_ENDED created
\* it: when that match is no longer the current one (it was committed and a
\* later MATCH_STARTED put another match into Recording), the end of the
\* task's sleep sends nothing to the recorder and changes neither the
\* controller state nor any record.
C34_StaleDelayedStopIgnored ==
    [][\A r \in StopOutcomes, ok \in BOOLEAN :
        (/\ pending # <<>>
         /\ Head(pending).match \notin {NoMatch, current}
         /\ DelayedStop(r, ok))
            => /\ out'.cmds = <<>>
               /\ UNCHANGED <<state, current, matches, db>>]_vars

\* the start-recording and stop-recording requests among a handler's requests
RecordingCmds(cmds) ==
    SelectSeq(cmds, LAMBDA x : x.cmd \in {"start_recording", "stop_recording"})

\* the last handler's last recording request was a start-recording that returned
StartedByLastHandler ==
    /\ ~out.raised
    /\ RecordingCmds(out.cmds) # <<>>
    /\ RecordingCmds(out.cmds)[Len(RecordingCmds(out.cmds))].cmd = "start_recording"

\* C35: the coordinator's recorder commands alternate: when the handler that
\* ran last started a recording and MATCH_STARTED is handled next, the
\* handler does not request start-recording before it has requested
\* stop-recording
C35_StartOnlyAfterStop ==
    [][\A ok \in BOOLEAN :
        (StartedByLastHandler /\ MatchStarted(ok))
            => /\ RecordingCmds(out'.cmds) # <<>>
               /\ RecordingCmds(out'.cmds)[1].cmd = "stop_recording"]_vars

\* a session attempt that reaches the receive loop
ArenaSessionOpened == ArenaAttempt /\ arena'.pc = "session"

\* the arena's matchTime frame of PRE_MATCH is received and any refresh it
\* causes is answered
PreMatchReceived ==
    \E d \in RunDeliveries :
        /\ d.message.match_state = PRE_MATCH
        /\ d.fetch_ok
        /\ ArenaMessage(d.message, d.fetch_ok, d.results)

\* The arena client's run() task with an arena that lets the client reconnect
\* and goes on sending its matchTime: run() retries after each sleep (client.py:185-195),
\* a retry eventually opens a session, and an open session eventually
\* receives the PRE_MATCH frame
NextCommit ==
    \/ ArenaRun
    \/ ArenaAttempt
    \/ \E d \in RunDeliveries : ArenaMessage(d.message, d.fetch_ok, d.results)
    \/ ArenaConnectionClosed
    \/ ArenaBackoffElapsed

SpecCommit == InitArena /\ [][NextCommit]_vars

FairSpecCommit ==
    /\ SpecCommit
    /\ WF_vars(ArenaRun)
    /\ WF_vars(ArenaBackoffElapsed)
    /\ SF_vars(ArenaSessionOpened)
    /\ SF_vars(PreMatchReceived)

\* the last step of the client handled a matchTime frame that changed the
\* match state from POST_MATCH to PRE_MATCH: only that change asks for the
\* match results while MATCH_TIME_UPDATED is emitted
CommitObserved ==
    /\ arena.match_state = PRE_MATCH
    /\ MATCH_TIME_UPDATED \in {arena.emitted[i].notifier : i \in 1..Len(arena.emitted)}
    /\ "GET /api/matches" \in {arena.requests[i].op : i \in 1..Len(arena.requests)}

CommitEmitted ==
    MATCH_COMMITTED_OR_DISCARDED
        \in {arena.emitted[i].notifier : i \in 1..Len(arena.emitted)}

\* C36: whenever the arena client observes the match state change from
\* POST_MATCH to PRE_MATCH, MATCH_COMMITTED_OR_DISCARDED is eventually
\* emitted to the coordinator, also when the refresh of the match results
\* fails and the session has to reconnect (unless run() has ended with
\* ExitServer, which ends the program)
C36_CommitEventuallyDelivered ==
    CommitObserved ~> (CommitEmitted \/ arena.pc = "exited")

\* C37: whenever the arena client has no open WebSocket session (run() not
\* yet in a receive loop, sleeping before a retry, or ended), its connected
\* snapshot is false
C37_ConnectedOnlyInSession == arena.pc # "session" => ~arena.connected

\* C38: whenever a stop-recording call that the coordinator issues for the
\* match being recorded returns a clip id, both from the delayed-stop
\* finalization and from a MATCH_COMMITTED_OR_DISCARDED handled while
\* Recording, that clip id is on the match's record in the match list and in
\* the record persisted by the handler
C38_StopClipStored ==
    [][\A r \in StopOutcomes, ok \in BOOLEAN :
        (/\ state = Recording
         /\ current # NoMatch
         /\ r.kind = "ok"
         /\ (MatchCommitted(r, ok) \/ DelayedStop(r, ok)))
            => /\ matches'[current].var_data.clip_id = r.clip
               /\ db'[current].clip_id = r.clip]_vars

\* C39: every playback request a coordinator handler sends (delayed-stop
\* finalization, load_match, warp_to_time) names the clip of the match the
\* handler acts for, and that clip is on the recorder's timeline, so that the
\* position requested lies inside the clip's own timeline entry
C39_WarpOnlyToTimelineClip ==
    [][\A i \in 1..Len(out'.cmds) :
        out'.cmds[i].cmd = "warp_to_clip"
            => /\ current' # NoMatch
               /\ out'.cmds[i].clip = matches'[current'].var_data.clip_id
               /\ out'.cmds[i].clip \in timeline']_vars

\* the awaited recorder call of the handler that holds the lock returns
StopRecordingAnswered ==
    \E task \in CoordinatorTasks, res \in StopOutcomes : StopRecordingReturned(task, res)

\* the handler that holds the lock runs to its end
HolderEnds ==
    \E task \in CoordinatorTasks, ok \in BOOLEAN, match_id \in CommandIds :
        HandlerEnded(task, ok, match_id)

\* The tasks with the lock, when recorder and client I/O calls return: the
\* event loop resumes the task that holds the lock when the call it awaits
\* has answered, and the task then runs to the end of its handler
FairSpecLock ==
    /\ SpecLock
    /\ WF_vars(StopRecordingAnswered)
    /\ WF_vars(HolderEnds)

\* no task is among the waiters of the lock while it holds it, and the lock
\* is held only by a task that is inside a handler
LockHeldByRunningHandler ==
    /\ \A i \in 1..Len(lock.waiters) : lock.waiters[i] # lock.holder
    /\ \A task \in CoordinatorTasks :
            lock.holder = task <=> lock.running[task].pc \in {"locked", "stopped"}
    /\ \A task \in CoordinatorTasks :
            lock.running[task].pc = "waiting"
                <=> \E i \in 1..Len(lock.waiters) : lock.waiters[i] = task

\* C40: no task waits for the coordinator lock while it holds it, the lock is
\* held only while its holder is inside a handler (it is released when the
\* handler ends, by returning or by raising), also after stop_recording has
\* emitted CLIP_LIST_UPDATED to the holder, and every task that waits for
\* the lock eventually holds it when the I/O calls of the handlers return
C40_LockNeverSelfAwaitedAndObtained ==
    /\ []LockHeldByRunningHandler
    /\ \A task \in CoordinatorTasks :
            (lock.running[task].pc = "waiting") ~> (lock.holder = task)

\* a task waits for the lock while its holder has had stop_recording return
\* a clip id, hence CLIP_LIST_UPDATED handled inside the holder
C40_WaiterBehindStoppedHolder ==
    /\ lock.holder # "none"
    /\ lock.running[lock.holder].pc = "stopped"
    /\ lock.running[lock.holder].stop.kind = "ok"
    /\ lock.waiters # <<>>

====
